---- MODULE Spec2Model ----
(***************************************************************************)
(* Afterzin ticket sales: the payment-confirmation -> ticket-issuance      *)
(* pipeline (Pagar.me webhook) and the ticket repository, as a state       *)
(* machine over the SQLite tables.  One action per datastore statement of  *)
(* a handler run: a handler's local computation is folded into the         *)
(* statement that follows it.                                              *)
(***************************************************************************)
EXTENDS Integers, Sequences, FiniteSets, TLC

(* ---------------------------- bounds ----------------------------------- *)
\* concurrent webhook deliveries (handler runs)
NumRuns == 2
\* largest quantity of an order item
MaxQty == 2
\* total_quantity of the lot
LotTotal == 2
\* ticket inserts that may fail (UNIQUE code collision, datastore error)
MaxInsertErrs == 1
\* concurrent validateTicket requests
NumScans == 2
\* last value of the datastore clock
MaxClock == 3
\* tickets the repository-level specification creates
MaxRepoTickets == 3
\* CreatePayment requests in flight
NumPayments == 2

Runs == 1..NumRuns

(* ------------------------- signed token codec -------------------------- *)
\* A string is a sequence of symbols.  "." and ":" are the delimiters, the
\* hex digits are symbols, and an identifier (uuid) is a one-symbol string.
separator == "."

\* sha256.Size: the length of a MAC in bytes
sha256_Size == 32

HexChars == <<"0","1","2","3","4","5","6","7","8","9","a","b","c","d","e","f">>

IsHex(c) == \E i \in 1..16 : HexChars[i] = c

HexVal(c) == (CHOOSE i \in 1..16 : HexChars[i] = c) - 1

\* hex.EncodeToString: two lowercase hex digits per byte
EncodeToString(b) ==
  [i \in 1..(2 * Len(b)) |->
     IF i % 2 = 1 THEN HexChars[(b[(i + 1) \div 2] \div 16) + 1]
                  ELSE HexChars[(b[i \div 2] % 16) + 1]]

\* hex.DecodeString: an error on odd length or on a non-hex digit
DecodeString(s) ==
  IF Len(s) % 2 # 0 \/ \E i \in 1..Len(s) : ~IsHex(s[i])
  THEN [err |-> TRUE, bytes |-> <<>>]
  ELSE [err |-> FALSE,
        bytes |-> [i \in 1..(Len(s) \div 2) |->
                     16 * HexVal(s[2 * i - 1]) + HexVal(s[2 * i])]]

\* the index of the first occurrence in place of the last
LastIndex_First(s, sep) ==
  IF \E i \in 1..Len(s) : s[i] = sep
  THEN (CHOOSE i \in 1..Len(s) : s[i] = sep /\ \A j \in 1..(i - 1) : s[j] # sep) - 1
  ELSE -1

\* the hex digit after c
NextHex(c) == HexChars[((HexVal(c) + 1) % 16) + 1]

\* the token with its last hex digit flipped
FlipLast(token) == [token EXCEPT ![Len(token)] = NextHex(token[Len(token)])]

\* strings.LastIndex, 0-based as in Go, -1 when sep does not occur
LastIndex(s, sep) ==
  IF \E i \in 1..Len(s) : s[i] = sep
  THEN (CHOOSE i \in 1..Len(s) : s[i] = sep /\ \A j \in (i + 1)..Len(s) : s[j] # sep) - 1
  ELSE -1

\* strings.Index, 0-based, -1 when sep does not occur
Index(s, sep) ==
  IF \E i \in 1..Len(s) : s[i] = sep
  THEN (CHOOSE i \in 1..Len(s) : s[i] = sep /\ \A j \in 1..(i - 1) : s[j] # sep) - 1
  ELSE -1

\* a split that always yields three parts, padding with empty strings
SplitN3_Padded(s, sep) ==
  LET i1 == Index(s, sep) IN
  IF i1 < 0 THEN <<s, <<>>, <<>>>>
  ELSE LET rest == SubSeq(s, i1 + 2, Len(s))
           i2 == Index(rest, sep) IN
       IF i2 < 0 THEN <<SubSeq(s, 1, i1), rest, <<>>>>
       ELSE <<SubSeq(s, 1, i1), SubSeq(rest, 1, i2), SubSeq(rest, i2 + 2, Len(rest))>>

\* a split that goes on after the second separator: the last part is split
\* once more where it holds the separator
SplitN3_LastSplit(s, sep) ==
  LET i1 == Index(s, sep) IN
  IF i1 < 0 THEN <<s>>
  ELSE LET rest == SubSeq(s, i1 + 2, Len(s))
           i2 == Index(rest, sep) IN
       IF i2 < 0 THEN <<SubSeq(s, 1, i1), rest>>
       ELSE LET last == SubSeq(rest, i2 + 2, Len(rest))
                i3 == Index(last, sep) IN
            IF i3 < 0 THEN <<SubSeq(s, 1, i1), SubSeq(rest, 1, i2), last>>
            ELSE <<SubSeq(s, 1, i1), SubSeq(rest, 1, i2), SubSeq(last, 1, i3),
                   SubSeq(last, i3 + 2, Len(last))>>

\* strings.SplitN(s, sep, 3): at most three parts, the last one unsplit
SplitN3(s, sep) ==
  LET i1 == Index(s, sep) IN
  IF i1 < 0 THEN <<s>>
  ELSE LET rest == SubSeq(s, i1 + 2, Len(s))
           i2 == Index(rest, sep) IN
       IF i2 < 0 THEN <<SubSeq(s, 1, i1), rest>>
       ELSE <<SubSeq(s, 1, i1), SubSeq(rest, 1, i2), SubSeq(rest, i2 + 2, Len(rest))>>

\* the secrets of the model; "" is the unset secret
Secrets == <<"default-secret", "s1", "s2", "wh1", "wh2">>

\* h.cfg.JWTSecret
JWTSecret == "s1"

\* the identifiers that occur inside tokens
OrderIds == {"o1", "o2"}
EventIds == {"e1", "e2"}
ChargeIds == {"ch1", "ch2"}

TicketId(p, k, i) == "t" \o ToString(p) \o ToString(k) \o ToString(i)

\* the symbols of webhook bodies and of timestamps: a body is the one-symbol
\* string of the event it is the JSON document of, "junk" is no JSON
BodySymbols == <<"evt1", "evt2", "evt3", "evt4", "evt5", "evt6", "junk",
                 "sevt1", "sevt2", "sevt3", "sevt4", "sevt5",
                 "-300", "-299", "1", "301", "302", "x">>

\* byte value of a symbol (its place in the model's character table)
CharByte(c) ==
  IF IsHex(c) THEN HexVal(c)
  ELSE IF c = "." THEN 16
  ELSE IF c = ":" THEN 17
  ELSE IF c = "e1" THEN 18
  ELSE IF c = "e2" THEN 19
  ELSE IF c = "ch1" THEN 20
  ELSE IF c = "ch2" THEN 21
  ELSE IF c = "tx" THEN 22
  ELSE IF \E i \in 1..Len(BodySymbols) : BodySymbols[i] = c
  THEN 150 + (CHOOSE i \in 1..Len(BodySymbols) : BodySymbols[i] = c)
  ELSE LET t == CHOOSE t \in (0..4) \X (0..4) \X (0..4) : c = TicketId(t[1], t[2], t[3])
       IN 23 + 25 * t[1] + 5 * t[2] + t[3]

\* HMAC-SHA256 taken as collision-free: the 32 bytes determine key and message
hmac(secret, data) ==
  LET key == IF secret = "" THEN "default-secret" ELSE secret
      kb == CHOOSE i \in 1..Len(Secrets) : Secrets[i] = key IN
  [i \in 1..sha256_Size |->
     IF i = 1 THEN kb
     ELSE IF i = 2 THEN Len(data)
     ELSE IF i - 2 <= Len(data) THEN CharByte(data[i - 2])
     ELSE 0]

GenerateSignedPayload(ticketID, secret) ==
  ticketID \o <<separator>> \o EncodeToString(hmac(secret, ticketID))

\* the legacy verification that turns away a payload portion with ":" inside
VerifySignedPayload_OneField(payload, secret) ==
  LET idx == LastIndex(payload, separator) IN
  IF idx <= 0 \/ idx >= Len(payload) - 1 THEN [ticketID |-> <<>>, ok |-> FALSE]
  ELSE LET ticketID == SubSeq(payload, 1, idx)
           sig == DecodeString(SubSeq(payload, idx + 2, Len(payload))) IN
       IF sig.err \/ Len(sig.bytes) # sha256_Size THEN [ticketID |-> <<>>, ok |-> FALSE]
       ELSE IF \E i \in 1..Len(ticketID) : ticketID[i] = ":" THEN [ticketID |-> <<>>, ok |-> FALSE]
       ELSE [ticketID |-> ticketID, ok |-> sig.bytes = hmac(secret, ticketID)]

VerifySignedPayload(payload, secret) ==
  LET idx == LastIndex(payload, separator) IN
  IF idx <= 0 \/ idx >= Len(payload) - 1 THEN [ticketID |-> <<>>, ok |-> FALSE]
  ELSE LET ticketID == SubSeq(payload, 1, idx)
           sig == DecodeString(SubSeq(payload, idx + 2, Len(payload))) IN
       IF sig.err \/ Len(sig.bytes) # sha256_Size THEN [ticketID |-> <<>>, ok |-> FALSE]
       ELSE [ticketID |-> ticketID, ok |-> sig.bytes = hmac(secret, ticketID)]

\* a token of the legacy shape in place of the extended one
GenerateSignedPayloadV2_Legacy(ticketID, chargeID, eventID, secret) ==
  GenerateSignedPayload(ticketID, secret)

GenerateSignedPayloadV2(ticketID, chargeID, eventID, secret) ==
  LET data == ticketID \o <<":">> \o chargeID \o <<":">> \o eventID IN
  data \o <<separator>> \o EncodeToString(hmac(secret, data))

V2Fail == [ticketID |-> <<>>, chargeID |-> <<>>, eventID |-> <<>>, ok |-> FALSE]

\* the extended verification without the comparison of the MAC
VerifySignedPayloadV2_NoMac(payload, secret) ==
  LET idx == LastIndex(payload, separator) IN
  IF idx <= 0 \/ idx >= Len(payload) - 1 THEN V2Fail
  ELSE LET data == SubSeq(payload, 1, idx)
           sig == DecodeString(SubSeq(payload, idx + 2, Len(payload))) IN
       IF sig.err \/ Len(sig.bytes) # sha256_Size THEN V2Fail
       ELSE LET parts == SplitN3(data, ":") IN
            IF Len(parts) # 3 THEN V2Fail
            ELSE [ticketID |-> parts[1], chargeID |-> parts[2],
                  eventID |-> parts[3], ok |-> TRUE]

VerifySignedPayloadV2(payload, secret) ==
  LET idx == LastIndex(payload, separator) IN
  IF idx <= 0 \/ idx >= Len(payload) - 1 THEN V2Fail
  ELSE LET data == SubSeq(payload, 1, idx)
           sig == DecodeString(SubSeq(payload, idx + 2, Len(payload))) IN
       IF sig.err \/ Len(sig.bytes) # sha256_Size THEN V2Fail
       ELSE IF sig.bytes # hmac(secret, data) THEN V2Fail
       ELSE LET parts == SplitN3(data, ":") IN
            IF Len(parts) # 3 THEN V2Fail
            ELSE [ticketID |-> parts[1], chargeID |-> parts[2],
                  eventID |-> parts[3], ok |-> TRUE]

\* an identifier as a string
Str(id) == IF id = "" THEN <<>> ELSE <<id>>

(* ------------------------------ catalog -------------------------------- *)
\* rows of events, event_dates, lots' and ticket types' fixed columns: the
\* settlement and redemption flows only read them
events == [e \in EventIds |-> [producer_id |-> IF e = "e1" THEN "p1" ELSE "p2"]]

event_dates == [d \in {"d1", "d2"} |-> [event_id |-> IF d = "d1" THEN "e1" ELSE "e2"]]

LotIds == {"l1"}

TicketTypeIds == {"tt1", "tt2"}

ItemIds == <<"i1", "i2", "i3">>

\* repository.EventDateByID: nil when the row does not exist
EventDateByID(id) ==
  IF id \in DOMAIN event_dates
  THEN [nil |-> FALSE, EventID |-> event_dates[id].event_id]
  ELSE [nil |-> TRUE, EventID |-> ""]

\* repository.EventByID: nil when the row does not exist
EventByID(id) ==
  IF id \in DOMAIN events THEN [nil |-> FALSE, ID |-> id] ELSE [nil |-> TRUE, ID |-> ""]

\* repository.EventProducerID: "" when the event does not exist
EventProducerID_FirstRow(eventID) == events["e1"].producer_id

EventProducerID(eventID) ==
  IF eventID \in DOMAIN events THEN events[eventID].producer_id ELSE ""

(* --------------------------- notifications ----------------------------- *)
\* An authenticated webhook event: its external id, its type, and what the
\* handlers extract from its data (our order id in "code", "" when absent).
Notifications ==
  { [id |-> "evt1", type |-> "order.paid", code |-> "o1", order_id |-> "or1", charge_id |-> "ch1"],
    [id |-> "evt2", type |-> "charge.paid", code |-> "o1", order_id |-> "or1", charge_id |-> "ch2"],
    [id |-> "evt3", type |-> "order.paid", code |-> "o2", order_id |-> "or2", charge_id |-> "ch2"] }

NoNotification == [id |-> "", type |-> "", code |-> "", order_id |-> "", charge_id |-> ""]

\* authenticated events that settle nothing: an event type the handler does
\* not route, an order.paid without order code, a charge.paid whose code
\* names no order
OtherNotifications ==
  { [id |-> "evt4", type |-> "order.created", code |-> "o1", order_id |-> "or1", charge_id |-> ""],
    [id |-> "evt5", type |-> "order.paid", code |-> "", order_id |-> "or3", charge_id |-> "ch1"],
    [id |-> "evt6", type |-> "charge.paid", code |-> "o9", order_id |-> "or9", charge_id |-> "ch2"] }

(* --------------------- Pagar.me webhook requests ----------------------- *)
\* json.Unmarshal(payload, &event) and what the handlers read in its data
Unmarshal(payload) ==
  IF \E n \in Notifications \cup OtherNotifications : payload = <<n.id>>
  THEN [err |-> FALSE,
        event |-> CHOOSE n \in Notifications \cup OtherNotifications : payload = <<n.id>>]
  ELSE [err |-> TRUE, event |-> NoNotification]

\* strings.HasPrefix(signatureHeader, "sha256=")
HasPrefix(s, prefix) == Len(s) >= 1 /\ s[1] = prefix

\* strings.TrimPrefix(signatureHeader, "sha256=")
TrimPrefix(s, prefix) == IF HasPrefix(s, prefix) THEN Tail(s) ELSE s

\* the verification without the comparison of the signature
VerifyWebhookSignature_NoCompare(WebhookSecret, payload, signatureHeader) ==
  IF WebhookSecret = "" THEN [err |-> TRUE, event |-> NoNotification]
  ELSE IF ~HasPrefix(signatureHeader, "sha256=") THEN [err |-> TRUE, event |-> NoNotification]
  ELSE Unmarshal(payload)

\* Client.VerifyWebhookSignature of the Pagar.me client
VerifyWebhookSignature(WebhookSecret, payload, signatureHeader) ==
  IF WebhookSecret = "" THEN [err |-> TRUE, event |-> NoNotification]
  ELSE IF ~HasPrefix(signatureHeader, "sha256=") THEN [err |-> TRUE, event |-> NoNotification]
  ELSE IF TrimPrefix(signatureHeader, "sha256=") # EncodeToString(hmac(WebhookSecret, payload))
  THEN [err |-> TRUE, event |-> NoNotification]
  ELSE Unmarshal(payload)

\* the x-hub-signature header the processor computes for a body
XHubSignature(secret, payload) == <<"sha256=">> \o EncodeToString(hmac(secret, payload))

\* an HTTP request to the webhook endpoint; kind says how it was made
Request(kind, method, readErr, payload, header) ==
  [kind |-> kind, method |-> method, readErr |-> readErr, payload |-> payload, header |-> header]

\* the requests that reach POST /api/pagarme/webhook: the six events signed
\* by the processor, then a GET, a body that cannot be read, a request
\* without signature header, a header without the sha256= prefix, a
\* signature made with another secret, and a signed body that is no JSON
PagarmeRequests ==
  << Request("signed", "POST", FALSE, <<"evt1">>, XHubSignature("wh1", <<"evt1">>)),
     Request("signed", "POST", FALSE, <<"evt2">>, XHubSignature("wh1", <<"evt2">>)),
     Request("signed", "POST", FALSE, <<"evt3">>, XHubSignature("wh1", <<"evt3">>)),
     Request("signed", "POST", FALSE, <<"evt4">>, XHubSignature("wh1", <<"evt4">>)),
     Request("signed", "POST", FALSE, <<"evt5">>, XHubSignature("wh1", <<"evt5">>)),
     Request("signed", "POST", FALSE, <<"evt6">>, XHubSignature("wh1", <<"evt6">>)),
     Request("get", "GET", FALSE, <<"evt1">>, XHubSignature("wh1", <<"evt1">>)),
     Request("unreadable", "POST", TRUE, <<"evt1">>, XHubSignature("wh1", <<"evt1">>)),
     Request("missing", "POST", FALSE, <<"evt1">>, <<>>),
     Request("malformed", "POST", FALSE, <<"evt1">>, EncodeToString(hmac("wh1", <<"evt1">>))),
     Request("mismatch", "POST", FALSE, <<"evt1">>, XHubSignature("wh2", <<"evt1">>)),
     Request("nojson", "POST", FALSE, <<"junk">>, XHubSignature("wh1", <<"junk">>)) >>

\* the requests of the settlement specification: the three paid events and
\* the request with a bad signature
SettlementRequests == {1, 2, 3, 11}

\* the values cfg.PagarmeWebhookSecret takes: unset, or the deployment's secret
WebhookSecrets == {"", "wh1"}

\* VerifyWebhookSignature of each request under each configured secret
PagarmeVerified ==
  [q \in 1..Len(PagarmeRequests) |->
     [ws \in WebhookSecrets |->
        VerifyWebhookSignature(ws, PagarmeRequests[q].payload, PagarmeRequests[q].header)]]

\* the checks of HandleWebhook without the error of the verification
HandleWebhook_Reject_NoVerify(req, verified) ==
  IF req.method # "POST" THEN 405
  ELSE IF req.readErr THEN 400
  ELSE IF req.header = <<>> THEN 400
  ELSE 0

\* HandleWebhook before the idempotency check: 0 when the request passed
\* the method, body, header and signature checks, else the status answered
HandleWebhook_Reject(req, verified) ==
  IF req.method # "POST" THEN 405
  ELSE IF req.readErr THEN 400
  ELSE IF req.header = <<>> THEN 400
  ELSE IF verified.err THEN 400
  ELSE 0

(* ---------------------- Stripe webhook requests ------------------------ *)
\* the 5 minute tolerance of the Stripe-Signature timestamp, in seconds
TimestampTolerance == 300

\* Stripe events, in the shape of the Pagar.me ones: order_id is the checkout
\* session id in data.object.id, code the order_id in the metadata of the
\* retrieved session, charge_id its payment_intent
StripeNotifications ==
  { [id |-> "sevt1", type |-> "checkout.session.completed", code |-> "o1", order_id |-> "cs1", charge_id |-> "ch1"],
    [id |-> "sevt2", type |-> "payment_intent.succeeded", code |-> "o1", order_id |-> "cs1", charge_id |-> "ch1"],
    [id |-> "sevt3", type |-> "checkout.session.completed", code |-> "", order_id |-> "cs3", charge_id |-> "ch2"],
    [id |-> "sevt4", type |-> "customer.created", code |-> "", order_id |-> "", charge_id |-> ""],
    [id |-> "sevt5", type |-> "checkout.session.completed", code |-> "o9", order_id |-> "cs9", charge_id |-> "ch2"] }

\* json.Unmarshal(payload, &event) of the Stripe client
Stripe_Unmarshal(payload) ==
  IF \E n \in StripeNotifications : payload = <<n.id>>
  THEN [err |-> FALSE, event |-> CHOOSE n \in StripeNotifications : payload = <<n.id>>]
  ELSE [err |-> TRUE, event |-> NoNotification]

\* strings.Split(s, sep): the parts between the separators, at least one
RECURSIVE Split(_, _)
Split(s, sep) ==
  LET i == Index(s, sep) IN
  IF i < 0 THEN <<s>>
  ELSE <<SubSeq(s, 1, i)>> \o Split(SubSeq(s, i + 2, Len(s)), sep)

\* strings.SplitN(s, sep, 2)
SplitN2(s, sep) ==
  LET i == Index(s, sep) IN
  IF i < 0 THEN <<s>> ELSE <<SubSeq(s, 1, i), SubSeq(s, i + 2, Len(s))>>

\* strings.TrimSpace
RECURSIVE TrimSpace(_)
TrimSpace(s) ==
  IF s = <<>> THEN s
  ELSE IF Head(s) = " " THEN TrimSpace(Tail(s))
  ELSE IF s[Len(s)] = " " THEN TrimSpace(SubSeq(s, 1, Len(s) - 1))
  ELSE s

\* strconv.ParseInt(timestamp, 10, 64): a decimal numeral is one symbol
ParseInt(s) ==
  IF Len(s) = 1 /\ \E n \in -400..400 : ToString(n) = s[1]
  THEN [err |-> FALSE, value |-> CHOOSE n \in -400..400 : ToString(n) = s[1]]
  ELSE [err |-> TRUE, value |-> 0]

\* the loop over the header's parts: the last t value and the v1 values
RECURSIVE ParseSigHeader(_, _, _)
ParseSigHeader(parts, timestamp, signatures) ==
  IF parts = <<>> THEN [timestamp |-> timestamp, signatures |-> signatures]
  ELSE LET kv == SplitN2(TrimSpace(Head(parts)), "=") IN
       IF Len(kv) # 2 THEN ParseSigHeader(Tail(parts), timestamp, signatures)
       ELSE IF kv[1] = <<"t">> THEN ParseSigHeader(Tail(parts), kv[2], signatures)
       ELSE IF kv[1] = <<"v1">> THEN ParseSigHeader(Tail(parts), timestamp, Append(signatures, kv[2]))
       ELSE ParseSigHeader(Tail(parts), timestamp, signatures)

\* the difference taken as it is
Abs_Signed(x) == x

\* math.Abs
Abs(x) == IF x < 0 THEN -x ELSE x

\* Client.VerifyWebhookSignature of the Stripe client; unixNow is time.Now().Unix()
Stripe_VerifyWebhookSignature(WebhookSecret, payload, sigHeader, unixNow) ==
  LET h == ParseSigHeader(Split(sigHeader, ","), <<>>, <<>>)
      ts == ParseInt(h.timestamp)
      expectedSig == EncodeToString(hmac(WebhookSecret, h.timestamp \o <<".">> \o payload))
      fail == [err |-> TRUE, event |-> NoNotification] IN
  IF WebhookSecret = "" THEN fail
  ELSE IF h.timestamp = <<>> \/ h.signatures = <<>> THEN fail
  ELSE IF ts.err THEN fail
  ELSE IF Abs(unixNow - ts.value) > TimestampTolerance THEN fail
  ELSE IF ~\E i \in 1..Len(h.signatures) : h.signatures[i] = expectedSig THEN fail
  ELSE Stripe_Unmarshal(payload)

\* the v1 signature the processor computes for a body at time t
StripeV1(secret, t, payload) == EncodeToString(hmac(secret, <<t>> \o <<".">> \o payload))

\* the Stripe-Signature header t=<t>,v1=<signature>
StripeSignature(secret, t, payload) ==
  <<"t", "=", t, ",", "v1", "=">> \o StripeV1(secret, t, payload)

\* the requests that reach POST /api/stripe/webhook: the four events signed
\* at time 1; sevt1 signed at the edges of the tolerance and past them; a
\* header with two v1 candidates and blanks; then a GET, an unreadable body,
\* no header, a header without timestamp, a non-numeric timestamp, and a
\* signature made with another secret
StripeRequests ==
  << Request("signed", "POST", FALSE, <<"sevt1">>, StripeSignature("wh2", "1", <<"sevt1">>)),
     Request("signed", "POST", FALSE, <<"sevt2">>, StripeSignature("wh2", "1", <<"sevt2">>)),
     Request("signed", "POST", FALSE, <<"sevt3">>, StripeSignature("wh2", "1", <<"sevt3">>)),
     Request("signed", "POST", FALSE, <<"sevt4">>, StripeSignature("wh2", "1", <<"sevt4">>)),
     Request("signed", "POST", FALSE, <<"sevt5">>, StripeSignature("wh2", "1", <<"sevt5">>)),
     Request("signed", "POST", FALSE, <<"sevt1">>, StripeSignature("wh2", "-299", <<"sevt1">>)),
     Request("signed", "POST", FALSE, <<"sevt1">>, StripeSignature("wh2", "301", <<"sevt1">>)),
     Request("signed", "POST", FALSE, <<"sevt1">>,
             <<" ", "t", "=", "1", ",", " ", "v1", "=">> \o StripeV1("wh1", "1", <<"sevt1">>)
               \o <<",", "v1", "=">> \o StripeV1("wh2", "1", <<"sevt1">>)),
     Request("stale", "POST", FALSE, <<"sevt1">>, StripeSignature("wh2", "-300", <<"sevt1">>)),
     Request("stale", "POST", FALSE, <<"sevt1">>, StripeSignature("wh2", "302", <<"sevt1">>)),
     Request("get", "GET", FALSE, <<"sevt1">>, StripeSignature("wh2", "1", <<"sevt1">>)),
     Request("unreadable", "POST", TRUE, <<"sevt1">>, StripeSignature("wh2", "1", <<"sevt1">>)),
     Request("missing", "POST", FALSE, <<"sevt1">>, <<>>),
     Request("malformed", "POST", FALSE, <<"sevt1">>, <<"v1", "=">> \o StripeV1("wh2", "1", <<"sevt1">>)),
     Request("malformed", "POST", FALSE, <<"sevt1">>, StripeSignature("wh2", "x", <<"sevt1">>)),
     Request("mismatch", "POST", FALSE, <<"sevt1">>, StripeSignature("wh1", "1", <<"sevt1">>)) >>

\* the values cfg.StripeWebhookSecret takes: unset, or the deployment's secret
StripeWebhookSecrets == {"", "wh2"}

\* Stripe_VerifyWebhookSignature of each request under each configured
\* secret at each reading of the clock
StripeVerified ==
  [q \in 1..Len(StripeRequests) |->
     [ws \in StripeWebhookSecrets |->
        [t \in 1..MaxClock |->
           Stripe_VerifyWebhookSignature(ws, StripeRequests[q].payload, StripeRequests[q].header, t)]]]

(* ------------------------------- state --------------------------------- *)
VARIABLES
  orders,          \* orders rows: id -> [user_id, status, pagarme_order_id, pagarme_charge_id,
                   \*                     stripe_payment_intent_id]
  order_items,     \* order_items rows: id -> [order_id, event_date_id, ticket_type_id, quantity]
  lots,            \* lots rows: id -> [total_quantity, available_quantity]
  ticket_types,    \* ticket_types rows: id -> [lot_id, max_quantity, sold_quantity]
  tickets,         \* tickets rows (a set, keyed by id)
  webhook_events,  \* pagarme_webhook_events rows (a set, pagarme_event_id UNIQUE)
  ticket_validations, \* ticket_validations rows (a set)
  run,             \* webhook handler runs: position and locals
  scan,            \* validateTicket requests: position and locals
  now,             \* the datastore clock, datetime('now')
  hist,            \* history: what the guarded statements did, which runs ended early
  stripe_webhook_events, \* stripe_webhook_events rows (a set, stripe_event_id UNIQUE)
  cfg,             \* the clients' configuration: WebhookSecret of each processor
  call             \* the last call of a pure function: its name, arguments and result

vars == <<orders, order_items, lots, ticket_types, tickets, webhook_events,
          ticket_validations, run, scan, now, hist, stripe_webhook_events, cfg, call>>

(* ---------------------------- repository ------------------------------- *)
\* orders.go: UPDATE orders SET status = 'PAID' WHERE id = ? AND status = 'PENDING'
ConfirmOrder_Unguarded(ords, orderID) ==
  [o \in DOMAIN ords |->
     IF o = orderID THEN [ords[o] EXCEPT !.status = "PAID"] ELSE ords[o]]

\* the confirmation that asks for a ticket of the order
ConfirmOrder_IfTicketed(ords, orderID) ==
  IF \E t \in tickets : t.order_id = orderID THEN ConfirmOrder_Unguarded(ords, orderID) ELSE ords

ConfirmOrder(ords, orderID) ==
  [o \in DOMAIN ords |->
     IF o = orderID /\ ords[o].status = "PENDING"
     THEN [ords[o] EXCEPT !.status = "PAID"] ELSE ords[o]]

\* SELECT user_id, status, total FROM orders WHERE id = ?
\* the read that reports every order as PENDING
OrderByID_AlwaysPending(ords, id) ==
  IF id \in DOMAIN ords
  THEN [err |-> FALSE, userID |-> ords[id].user_id, status |-> "PENDING"]
  ELSE [err |-> TRUE, userID |-> "", status |-> ""]

OrderByID(ords, id) ==
  IF id \in DOMAIN ords
  THEN [err |-> FALSE, userID |-> ords[id].user_id, status |-> ords[id].status]
  ELSE [err |-> TRUE, userID |-> "", status |-> ""]

\* SELECT ... FROM order_items WHERE order_id = ?
OrderItemsByOrderID(items, orderID) ==
  SelectSeq(ItemIds, LAMBDA i : i \in DOMAIN items /\ items[i].order_id = orderID)

\* the update without its WHERE clause: every order row is written
SetOrderPagarmeOrderID_EveryRow(ords, orderID, pagarmeOrderID) ==
  [o \in DOMAIN ords |-> [ords[o] EXCEPT !.pagarme_order_id = pagarmeOrderID]]

\* UPDATE orders SET pagarme_order_id = ? WHERE id = ?
SetOrderPagarmeOrderID(ords, orderID, pagarmeOrderID) ==
  [o \in DOMAIN ords |->
     IF o = orderID THEN [ords[o] EXCEPT !.pagarme_order_id = pagarmeOrderID] ELSE ords[o]]

\* UPDATE orders SET pagarme_charge_id = ? WHERE id = ?
SetOrderPagarmeChargeID(ords, orderID, chargeID) ==
  [o \in DOMAIN ords |->
     IF o = orderID THEN [ords[o] EXCEPT !.pagarme_charge_id = chargeID] ELSE ords[o]]

\* INSERT INTO tickets (...) VALUES (..., 0): used = 0, used_at NULL (0)
CreateTicketWithID(tks, id, qrCode, orderID, orderItemID, userID, eventID, eventDateID, ticketTypeID) ==
  tks \cup { [id |-> id, qr_code |-> qrCode, order_id |-> orderID,
              order_item_id |-> orderItemID, user_id |-> userID,
              event_id |-> eventID, event_date_id |-> eventDateID,
              ticket_type_id |-> ticketTypeID, used |-> 0, used_at |-> 0] }

\* UPDATE ticket_types SET sold_quantity = sold_quantity + ? WHERE id = ?
IncrementTicketTypeSold(tts, ticketTypeID, n) ==
  [t \in DOMAIN tts |->
     IF t = ticketTypeID THEN [tts[t] EXCEPT !.sold_quantity = @ + n] ELSE tts[t]]

\* UPDATE lots SET available_quantity = available_quantity - ?
\*   WHERE id = ? AND available_quantity >= ?
DecrementLotAvailable_Unguarded(ls, lotID, n) ==
  [l \in DOMAIN ls |->
     IF l = lotID THEN [ls[l] EXCEPT !.available_quantity = @ - n] ELSE ls[l]]

DecrementLotAvailable(ls, lotID, n) ==
  [l \in DOMAIN ls |->
     IF l = lotID /\ ls[l].available_quantity >= n
     THEN [ls[l] EXCEPT !.available_quantity = @ - n] ELSE ls[l]]

\* SELECT lot_id FROM ticket_types WHERE id = ?: "" when there is no such row
LotIDByTicketTypeID(tts, ticketTypeID) ==
  IF ticketTypeID \in DOMAIN tts THEN tts[ticketTypeID].lot_id ELSE ""

\* SELECT ... FROM tickets WHERE id = ?: nil when there is no such row
NoTicket == [id |-> "", qr_code |-> <<>>, order_id |-> "", order_item_id |-> "", user_id |-> "",
             event_id |-> "", event_date_id |-> "", ticket_type_id |-> "", used |-> 0, used_at |-> 0]

TicketByID_NoWhere(tks, id) ==
  IF tks # {} THEN [nil |-> FALSE, row |-> CHOOSE r \in tks : TRUE]
  ELSE [nil |-> TRUE, row |-> NoTicket]

TicketByID(tks, id) ==
  IF \E r \in tks : Str(r.id) = id
  THEN [nil |-> FALSE, row |-> CHOOSE r \in tks : Str(r.id) = id]
  ELSE [nil |-> TRUE, row |-> NoTicket]

\* UPDATE tickets SET used = 1, used_at = datetime('now') WHERE id = ?
MarkTicketUsed(tks, id, t) ==
  { IF r.id = id THEN [r EXCEPT !.used = 1, !.used_at = t] ELSE r : r \in tks }

\* UPDATE tickets SET used = 1, used_at = datetime('now') WHERE id = ? AND used = 0
\* updated: RowsAffected() = 1
MarkTicketUsedIfNotUsed_Unguarded(tks, id, t) ==
  [tickets |-> { IF r.id = id THEN [r EXCEPT !.used = 1, !.used_at = t] ELSE r : r \in tks },
   updated |-> Cardinality({r \in tks : r.id = id}) = 1]

MarkTicketUsedIfNotUsed(tks, id, t) ==
  [tickets |-> { IF r.id = id /\ r.used = 0 THEN [r EXCEPT !.used = 1, !.used_at = t] ELSE r : r \in tks },
   updated |-> Cardinality({r \in tks : r.id = id /\ r.used = 0}) = 1]

\* an insert that leaves only the new record in the log
InsertTicketValidation_Replace(vals, id, ticketID, eventID, producerID, t) ==
  { [id |-> id, ticket_id |-> ticketID, event_id |-> eventID,
     producer_id |-> producerID, validated_at |-> t] }

\* INSERT INTO ticket_validations (id, ticket_id, event_id, producer_id); validated_at = datetime('now')
InsertTicketValidation(vals, id, ticketID, eventID, producerID, t) ==
  vals \cup { [id |-> id, ticket_id |-> ticketID, event_id |-> eventID,
               producer_id |-> producerID, validated_at |-> t] }

\* the idempotency check that never finds a row
PagarmeWebhookEventExists_Never(wh, eventID) == FALSE

\* SELECT COUNT(*) FROM pagarme_webhook_events WHERE pagarme_event_id = ?
PagarmeWebhookEventExists(wh, eventID) ==
  \E r \in wh : r.pagarme_event_id = eventID

\* the uuid of a new ledger row: the n-th row made for an external id
LedgerRowId(eventID, n) == "w" \o eventID \o ToString(n)

\* a plain INSERT into a table without the UNIQUE constraint
InsertPagarmeWebhookEvent_NoUnique(wh, eventID, eventType) ==
  [rows |-> wh \cup { [id |-> LedgerRowId(eventID, Cardinality({r \in wh : r.pagarme_event_id = eventID}) + 1),
                       pagarme_event_id |-> eventID, event_type |-> eventType, processed |-> 0] },
   err |-> FALSE]

\* INSERT OR IGNORE under a fresh uuid: pagarme_event_id is UNIQUE, a row
\* that conflicts is skipped and the statement returns no error
InsertPagarmeWebhookEvent(wh, eventID, eventType) ==
  IF \E r \in wh : r.pagarme_event_id = eventID THEN [rows |-> wh, err |-> FALSE]
  ELSE [rows |-> wh \cup { [id |-> LedgerRowId(eventID, 1), pagarme_event_id |-> eventID,
                            event_type |-> eventType, processed |-> 0] },
        err |-> FALSE]

\* UPDATE pagarme_webhook_events SET processed = 1 WHERE pagarme_event_id = ?
MarkPagarmeWebhookEventProcessed(wh, eventID) ==
  { IF r.pagarme_event_id = eventID THEN [r EXCEPT !.processed = 1] ELSE r : r \in wh }

\* the idempotency check that asks for a row whose processing has completed
WebhookEventExists_Processed(wh, stripeEventID) ==
  \E r \in wh : r.stripe_event_id = stripeEventID /\ r.processed = 1

\* SELECT COUNT(*) FROM stripe_webhook_events WHERE stripe_event_id = ?
WebhookEventExists(wh, stripeEventID) ==
  \E r \in wh : r.stripe_event_id = stripeEventID

\* INSERT OR IGNORE under a fresh uuid: stripe_event_id is UNIQUE, a row
\* that conflicts is skipped and the statement returns no error
InsertWebhookEvent(wh, stripeEventID, eventType) ==
  IF \E r \in wh : r.stripe_event_id = stripeEventID THEN [rows |-> wh, err |-> FALSE]
  ELSE [rows |-> wh \cup { [id |-> LedgerRowId(stripeEventID, 1), stripe_event_id |-> stripeEventID,
                            event_type |-> eventType, processed |-> 0] },
        err |-> FALSE]

\* UPDATE stripe_webhook_events SET processed = 1 WHERE stripe_event_id = ?
MarkWebhookEventProcessed(wh, stripeEventID) ==
  { IF r.stripe_event_id = stripeEventID THEN [r EXCEPT !.processed = 1] ELSE r : r \in wh }

\* UPDATE orders SET stripe_payment_intent_id = ? WHERE id = ?
SetOrderStripePaymentIntentID(ords, orderID, paymentIntentID) ==
  [o \in DOMAIN ords |->
     IF o = orderID THEN [ords[o] EXCEPT !.stripe_payment_intent_id = paymentIntentID] ELSE ords[o]]

(* ------------------------ settlement: handler runs --------------------- *)
\* a validateTicket request: position and locals
Scans == 1..NumScans

ProducerIds == {"p1", "p2"}

IdleScan == [pc |-> "idle", tok |-> 0, eventId |-> "", producerID |-> "",
             ticketID |-> "", readUsed |-> 0, result |-> ""]

IdleRun == [pc |-> "idle", n |-> NoNotification, orderUserID |-> "",
            k |-> 0, i |-> 0, response |-> 0, ledgerErr |-> FALSE,
            endpoint |-> "", q |-> 0, seen |-> FALSE]

\* a finished run keeps the notification it carried and its HTTP status
DoneRun(n, status) == [IdleRun EXCEPT !.pc = "done", !.n = n, !.response = status]

\* the run of request q of an endpoint
RunOf(endpoint, q, r) == [r EXCEPT !.endpoint = endpoint, !.q = q]

\* a finished run that went past the ledger insert also keeps whether it failed
DoneRunOf(r, status) ==
  [DoneRun(r.n, status) EXCEPT !.ledgerErr = r.ledgerErr, !.endpoint = r.endpoint, !.q = r.q]

\* the items of the run's order, as processOrderPayment reads them
RunItems(r) == OrderItemsByOrderID(order_items, r.n.code)

\* the event an item resolves to, "" when its event date or event is missing
ItemEvent(item) ==
  LET evDate == EventDateByID(order_items[item].event_date_id) IN
  IF evDate.nil THEN ""
  ELSE LET ev == EventByID(evDate.EventID) IN IF ev.nil THEN "" ELSE ev.ID

\* the first item at or after position k whose event resolves and that has
\* a unit to issue; Len(items) + 1 when there is none
RECURSIVE FirstUnit(_, _)
FirstUnit(items, k) ==
  IF k > Len(items) THEN k
  ELSE IF ItemEvent(items[k]) # "" /\ order_items[items[k]].quantity > 0 THEN k
  ELSE FirstUnit(items, k + 1)

\* the loop over the units left after its first iteration
AfterUnit_OneUnit(r) ==
  LET items == RunItems(r)
      k2 == FirstUnit(items, r.k + 1) IN
  IF k2 <= Len(items) THEN [r EXCEPT !.pc = "createTicket", !.k = k2, !.i = 0]
  ELSE [r EXCEPT !.pc = "confirm", !.k = 0, !.i = 0]

\* the loop position after unit i of item k: the next unit, the next item,
\* or the end of the loops
AfterUnit(r) ==
  LET items == RunItems(r) IN
  IF r.i + 1 < order_items[items[r.k]].quantity
  THEN [r EXCEPT !.pc = "createTicket", !.i = r.i + 1]
  ELSE LET k2 == FirstUnit(items, r.k + 1) IN
       IF k2 <= Len(items) THEN [r EXCEPT !.pc = "createTicket", !.k = k2, !.i = 0]
       ELSE [r EXCEPT !.pc = "confirm", !.k = 0, !.i = 0]

\* HandleWebhook up to the idempotency check: signature verification, then
\* SELECT COUNT(*) on the ledger
HandleWebhook(p, q) ==
  LET req == PagarmeRequests[q]
      verified == PagarmeVerified[q][cfg.PagarmeWebhookSecret]
      status == HandleWebhook_Reject(req, verified) IN
  /\ run[p].pc = "idle"
  /\ \A p2 \in 1..(p - 1) : run[p2].pc # "idle"
  /\ run' = [run EXCEPT ![p] = RunOf("pagarme", q,
               IF status # 0 THEN DoneRun(NoNotification, status)
               ELSE IF PagarmeWebhookEventExists(webhook_events, verified.event.id)
               THEN [DoneRun(verified.event, 200) EXCEPT !.seen = TRUE]
               ELSE [IdleRun EXCEPT !.pc = "insert", !.n = verified.event])]
  /\ UNCHANGED <<stripe_webhook_events, cfg, call, orders, order_items, lots, ticket_types, tickets, webhook_events,
                 ticket_validations, scan, now, hist>>

\* InsertPagarmeWebhookEvent, whose error (dbErr: the statement failed) is
\* dropped, then the routing by event type and the extraction of the order
\* code in handleOrderPaid / handleChargePaid
HandleWebhook_Insert(p, dbErr) ==
  LET r == run[p] IN
  /\ r.pc = "insert"
  /\ webhook_events' = IF dbErr THEN webhook_events
                       ELSE InsertPagarmeWebhookEvent(webhook_events, r.n.id, r.n.type).rows
  /\ run' = [run EXCEPT ![p].ledgerErr =
               dbErr \/ InsertPagarmeWebhookEvent(webhook_events, r.n.id, r.n.type).err, ![p].pc =
               IF r.n.type \notin {"order.paid", "charge.paid"} \/ r.n.code = "" THEN "markProcessed"
               ELSE IF r.n.order_id # "" THEN "setOrderID"
               ELSE IF r.n.charge_id # "" THEN "setChargeID"
               ELSE "orderByID"]
  /\ UNCHANGED <<stripe_webhook_events, cfg, call, orders, order_items, lots, ticket_types, tickets,
                 ticket_validations, scan, now, hist>>

processOrderPayment_SetOrderID(p) ==
  LET r == run[p] IN
  /\ r.pc = "setOrderID"
  /\ orders' = SetOrderPagarmeOrderID(orders, r.n.code, r.n.order_id)
  /\ run' = [run EXCEPT ![p].pc = IF r.n.charge_id # "" THEN "setChargeID" ELSE "orderByID"]
  /\ UNCHANGED <<stripe_webhook_events, cfg, call, order_items, lots, ticket_types, tickets, webhook_events,
                 ticket_validations, scan, now, hist>>

processOrderPayment_SetChargeID(p) ==
  LET r == run[p] IN
  /\ r.pc = "setChargeID"
  /\ orders' = SetOrderPagarmeChargeID(orders, r.n.code, r.n.charge_id)
  /\ run' = [run EXCEPT ![p].pc = "orderByID"]
  /\ UNCHANGED <<stripe_webhook_events, cfg, call, order_items, lots, ticket_types, tickets, webhook_events,
                 ticket_validations, scan, now, hist>>

\* the status re-check, then OrderItemsByOrderID and the entry of the loops
processOrderPayment_OrderByID(p) ==
  LET r == run[p]
      o == OrderByID(orders, r.n.code)
      items == RunItems(r)
      k1 == FirstUnit(items, 1) IN
  /\ r.pc = "orderByID"
  /\ run' = [run EXCEPT ![p] =
               IF o.err \/ o.userID = "" \/ o.status # "PENDING"
               THEN [r EXCEPT !.pc = "markProcessed"]
               ELSE IF k1 <= Len(items)
               THEN [r EXCEPT !.pc = "createTicket", !.orderUserID = o.userID, !.k = k1, !.i = 0]
               ELSE [r EXCEPT !.pc = "confirm", !.orderUserID = o.userID]]
  /\ UNCHANGED <<stripe_webhook_events, cfg, call, orders, order_items, lots, ticket_types, tickets, webhook_events,
                 ticket_validations, scan, now, hist>>

\* the unit's step where a failed insert goes on to the increment as well
processOrderPayment_CreateTicket_NoContinue(p) ==
  LET r == run[p]
      item == RunItems(r)[r.k]
      evID == ItemEvent(item)
      ticketID == TicketId(p, r.k, r.i)
      qrPayload == GenerateSignedPayloadV2(Str(ticketID), Str(r.n.charge_id), Str(evID), JWTSecret) IN
  /\ r.pc = "createTicket"
  /\ \/ /\ tickets' = CreateTicketWithID(tickets, ticketID, qrPayload, r.n.code, item,
                                         r.orderUserID, evID, order_items[item].event_date_id,
                                         order_items[item].ticket_type_id)
        /\ run' = [run EXCEPT ![p].pc = "incSold"]
        /\ UNCHANGED hist
     \/ /\ hist.insertErrs < MaxInsertErrs
        /\ hist' = [hist EXCEPT !.insertErrs = @ + 1]
        /\ run' = [run EXCEPT ![p].pc = "incSold"]
        /\ UNCHANGED tickets
  /\ UNCHANGED <<stripe_webhook_events, cfg, call, orders, order_items, lots, ticket_types, webhook_events,
                 ticket_validations, scan, now>>

\* uuid.New, GenerateSignedPayloadV2 and CreateTicketWithID for one unit; on
\* an insert error the loop continues with the next unit
processOrderPayment_CreateTicket(p) ==
  LET r == run[p]
      item == RunItems(r)[r.k]
      evID == ItemEvent(item)
      ticketID == TicketId(p, r.k, r.i)
      qrPayload == GenerateSignedPayloadV2(Str(ticketID), Str(r.n.charge_id), Str(evID), JWTSecret) IN
  /\ r.pc = "createTicket"
  /\ \/ /\ tickets' = CreateTicketWithID(tickets, ticketID, qrPayload, r.n.code, item,
                                         r.orderUserID, evID, order_items[item].event_date_id,
                                         order_items[item].ticket_type_id)
        /\ run' = [run EXCEPT ![p].pc = "incSold"]
        /\ UNCHANGED hist
     \/ /\ hist.insertErrs < MaxInsertErrs
        /\ hist' = [hist EXCEPT !.insertErrs = @ + 1]
        /\ run' = [run EXCEPT ![p] = AfterUnit(r)]
        /\ UNCHANGED tickets
  /\ UNCHANGED <<stripe_webhook_events, cfg, call, orders, order_items, lots, ticket_types, webhook_events,
                 ticket_validations, scan, now>>

processOrderPayment_IncrementSold(p) ==
  LET r == run[p]
      item == RunItems(r)[r.k] IN
  /\ r.pc = "incSold"
  /\ ticket_types' = IncrementTicketTypeSold(ticket_types, order_items[item].ticket_type_id, 1)
  /\ run' = [run EXCEPT ![p].pc = "decLot"]
  /\ UNCHANGED <<stripe_webhook_events, cfg, call, orders, order_items, lots, tickets, webhook_events,
                 ticket_validations, scan, now, hist>>

\* LotIDByTicketTypeID, then DecrementLotAvailable, whose result is dropped
processOrderPayment_DecrementLot(p) ==
  LET r == run[p]
      item == RunItems(r)[r.k]
      lotID == LotIDByTicketTypeID(ticket_types, order_items[item].ticket_type_id) IN
  /\ r.pc = "decLot"
  /\ lots' = DecrementLotAvailable(lots, lotID, 1)
  /\ hist' = IF lots' # lots THEN [hist EXCEPT !.decApplied[lotID] = @ + 1]
             ELSE [hist EXCEPT !.decDeclined[lotID] = @ + 1]
  /\ run' = [run EXCEPT ![p] = AfterUnit(r)]
  /\ UNCHANGED <<stripe_webhook_events, cfg, call, orders, order_items, ticket_types, tickets, webhook_events,
                 ticket_validations, scan, now>>

processOrderPayment_ConfirmOrder(p) ==
  LET r == run[p] IN
  /\ r.pc = "confirm"
  /\ orders' = ConfirmOrder(orders, r.n.code)
  /\ hist' = IF orders' # orders THEN [hist EXCEPT !.confirmApplied[r.n.code] = @ + 1]
             ELSE [hist EXCEPT !.confirmNoop[r.n.code] = @ + 1]
  /\ run' = [run EXCEPT ![p].pc = "markProcessed"]
  /\ UNCHANGED <<stripe_webhook_events, cfg, call, order_items, lots, ticket_types, tickets, webhook_events,
                 ticket_validations, scan, now>>

\* MarkPagarmeWebhookEventProcessed and the 200 response
HandleWebhook_MarkProcessed(p) ==
  LET r == run[p] IN
  /\ r.pc = "markProcessed"
  /\ webhook_events' = MarkPagarmeWebhookEventProcessed(webhook_events, r.n.id)
  /\ run' = [run EXCEPT ![p] = DoneRunOf(r, 200)]
  /\ UNCHANGED <<stripe_webhook_events, cfg, call, orders, order_items, lots, ticket_types, tickets,
                 ticket_validations, scan, now, hist>>

\* an order leaves PENDING for EXPIRED or CANCELED (checkout expiry)
ExpireOrder(o) ==
  /\ orders[o].status = "PENDING"
  /\ \E s \in {"EXPIRED", "CANCELED"} : orders' = [orders EXCEPT ![o].status = s]
  /\ UNCHANGED <<stripe_webhook_events, cfg, call, order_items, lots, ticket_types, tickets, webhook_events,
                 ticket_validations, run, scan, now, hist>>

(* -------------------- settlement: Stripe handler runs ------------------ *)
\* the loop position after a unit, in the Stripe handler's positions
Stripe_AfterUnit(r) == LET a == AfterUnit(r) IN [a EXCEPT !.pc = "s_" \o a.pc]

\* HandleWebhook of the Stripe handler up to the idempotency check
Stripe_HandleWebhook(p, q) ==
  LET req == StripeRequests[q]
      verified == StripeVerified[q][cfg.StripeWebhookSecret][now]
      status == HandleWebhook_Reject(req, verified) IN
  /\ run[p].pc = "idle"
  /\ \A p2 \in 1..(p - 1) : run[p2].pc # "idle"
  /\ run' = [run EXCEPT ![p] = RunOf("stripe", q,
               IF status # 0 THEN DoneRun(NoNotification, status)
               ELSE IF WebhookEventExists(stripe_webhook_events, verified.event.id)
               THEN [DoneRun(verified.event, 200) EXCEPT !.seen = TRUE]
               ELSE [IdleRun EXCEPT !.pc = "s_insert", !.n = verified.event])]
  /\ UNCHANGED <<stripe_webhook_events, cfg, call, orders, order_items, lots, ticket_types, tickets,
                 webhook_events, ticket_validations, scan, now, hist>>

\* InsertWebhookEvent, whose error is dropped, then the routing by event type
\* and handleCheckoutCompleted up to its first statement: the session id,
\* RetrieveCheckoutSession (fetchErr: the call failed), the order id in the
\* session's metadata.  handlePaymentIntentSucceeded only logs.
Stripe_HandleWebhook_Insert(p, dbErr, fetchErr) ==
  LET r == run[p] IN
  /\ r.pc = "s_insert"
  /\ stripe_webhook_events' = IF dbErr THEN stripe_webhook_events
                              ELSE InsertWebhookEvent(stripe_webhook_events, r.n.id, r.n.type).rows
  /\ run' = [run EXCEPT ![p].ledgerErr =
               dbErr \/ InsertWebhookEvent(stripe_webhook_events, r.n.id, r.n.type).err, ![p].pc =
               IF r.n.type # "checkout.session.completed" THEN "s_markProcessed"
               ELSE IF r.n.order_id = "" \/ fetchErr \/ r.n.code = "" THEN "s_markProcessed"
               ELSE IF r.n.charge_id # "" THEN "s_setPaymentIntentID"
               ELSE "s_orderByID"]
  /\ hist' = IF r.n.type = "checkout.session.completed" /\ r.n.order_id # "" /\ fetchErr
             THEN [hist EXCEPT !.aborted = @ \cup {p}] ELSE hist
  /\ UNCHANGED <<cfg, call, orders, order_items, lots, ticket_types, tickets,
                 webhook_events, ticket_validations, scan, now>>

handleCheckoutCompleted_SetPaymentIntentID(p) ==
  LET r == run[p] IN
  /\ r.pc = "s_setPaymentIntentID"
  /\ orders' = SetOrderStripePaymentIntentID(orders, r.n.code, r.n.charge_id)
  /\ run' = [run EXCEPT ![p].pc = "s_orderByID"]
  /\ UNCHANGED <<stripe_webhook_events, cfg, call, order_items, lots, ticket_types, tickets,
                 webhook_events, ticket_validations, scan, now, hist>>

\* the status re-check, then OrderItemsByOrderID and the entry of the loops
handleCheckoutCompleted_OrderByID(p) ==
  LET r == run[p]
      o == OrderByID(orders, r.n.code)
      items == RunItems(r)
      k1 == FirstUnit(items, 1) IN
  /\ r.pc = "s_orderByID"
  /\ run' = [run EXCEPT ![p] =
               IF o.err \/ o.userID = "" \/ o.status # "PENDING"
               THEN [r EXCEPT !.pc = "s_markProcessed"]
               ELSE IF k1 <= Len(items)
               THEN [r EXCEPT !.pc = "s_createTicket", !.orderUserID = o.userID, !.k = k1, !.i = 0]
               ELSE [r EXCEPT !.pc = "s_confirm", !.orderUserID = o.userID]]
  /\ UNCHANGED <<stripe_webhook_events, cfg, call, orders, order_items, lots, ticket_types, tickets,
                 webhook_events, ticket_validations, scan, now, hist>>

\* uuid.New, GenerateSignedPayloadV2 and CreateTicketWithID for one unit; on
\* an insert error the loop continues with the next unit
handleCheckoutCompleted_CreateTicket(p) ==
  LET r == run[p]
      item == RunItems(r)[r.k]
      evID == ItemEvent(item)
      ticketID == TicketId(p, r.k, r.i)
      qrPayload == GenerateSignedPayloadV2(Str(ticketID), Str(r.n.charge_id), Str(evID), JWTSecret) IN
  /\ r.pc = "s_createTicket"
  /\ \/ /\ tickets' = CreateTicketWithID(tickets, ticketID, qrPayload, r.n.code, item,
                                         r.orderUserID, evID, order_items[item].event_date_id,
                                         order_items[item].ticket_type_id)
        /\ run' = [run EXCEPT ![p].pc = "s_incSold"]
        /\ UNCHANGED hist
     \/ /\ hist.insertErrs < MaxInsertErrs
        /\ hist' = [hist EXCEPT !.insertErrs = @ + 1]
        /\ run' = [run EXCEPT ![p] = Stripe_AfterUnit(r)]
        /\ UNCHANGED tickets
  /\ UNCHANGED <<stripe_webhook_events, cfg, call, orders, order_items, lots, ticket_types,
                 webhook_events, ticket_validations, scan, now>>

handleCheckoutCompleted_IncrementSold(p) ==
  LET r == run[p]
      item == RunItems(r)[r.k] IN
  /\ r.pc = "s_incSold"
  /\ ticket_types' = IncrementTicketTypeSold(ticket_types, order_items[item].ticket_type_id, 1)
  /\ run' = [run EXCEPT ![p].pc = "s_decLot"]
  /\ UNCHANGED <<stripe_webhook_events, cfg, call, orders, order_items, lots, tickets,
                 webhook_events, ticket_validations, scan, now, hist>>

\* LotIDByTicketTypeID, then DecrementLotAvailable, whose result is dropped
handleCheckoutCompleted_DecrementLot(p) ==
  LET r == run[p]
      item == RunItems(r)[r.k]
      lotID == LotIDByTicketTypeID(ticket_types, order_items[item].ticket_type_id) IN
  /\ r.pc = "s_decLot"
  /\ lots' = DecrementLotAvailable(lots, lotID, 1)
  /\ hist' = IF lots' # lots THEN [hist EXCEPT !.decApplied[lotID] = @ + 1]
             ELSE [hist EXCEPT !.decDeclined[lotID] = @ + 1]
  /\ run' = [run EXCEPT ![p] = Stripe_AfterUnit(r)]
  /\ UNCHANGED <<stripe_webhook_events, cfg, call, orders, order_items, ticket_types, tickets,
                 webhook_events, ticket_validations, scan, now>>

handleCheckoutCompleted_ConfirmOrder(p) ==
  LET r == run[p] IN
  /\ r.pc = "s_confirm"
  /\ orders' = ConfirmOrder(orders, r.n.code)
  /\ hist' = IF orders' # orders THEN [hist EXCEPT !.confirmApplied[r.n.code] = @ + 1]
             ELSE [hist EXCEPT !.confirmNoop[r.n.code] = @ + 1]
  /\ run' = [run EXCEPT ![p].pc = "s_markProcessed"]
  /\ UNCHANGED <<stripe_webhook_events, cfg, call, order_items, lots, ticket_types, tickets,
                 webhook_events, ticket_validations, scan, now>>

\* MarkWebhookEventProcessed and the 200 response
Stripe_HandleWebhook_MarkProcessed(p) ==
  LET r == run[p] IN
  /\ r.pc = "s_markProcessed"
  /\ stripe_webhook_events' = MarkWebhookEventProcessed(stripe_webhook_events, r.n.id)
  /\ run' = [run EXCEPT ![p] = DoneRunOf(r, 200)]
  /\ UNCHANGED <<cfg, call, orders, order_items, lots, ticket_types, tickets,
                 webhook_events, ticket_validations, scan, now, hist>>

(* --------------------------- settlement spec --------------------------- *)
\* both clients have their webhook secret set
Configured == [PagarmeWebhookSecret |-> "wh1", StripeWebhookSecret |-> "wh2"]

\* no pure function has been called
NoCall ==
  [pc |-> "none", shape |-> "", ticketID |-> <<>>, chargeID |-> <<>>, eventID |-> <<>>,
   signSecret |-> "", verifySecret |-> "", damage |-> "", token |-> <<>>,
   legacy |-> [ticketID |-> <<>>, ok |-> FALSE], v2 |-> V2Fail,
   qr |-> [ok |-> FALSE, ticketID |-> <<>>]]

NoHist == [confirmApplied |-> [o \in OrderIds |-> 0], confirmNoop |-> [o \in OrderIds |-> 0],
           decApplied |-> [l \in LotIds |-> 0], decDeclined |-> [l \in LotIds |-> 0],
           insertErrs |-> 0, avail0 |-> [l \in LotIds |-> 0], aborted |-> {}]

Init ==
  /\ orders = [o \in OrderIds |->
                 [user_id |-> IF o = "o1" THEN "u1" ELSE "u2", status |-> "PENDING",
                  pagarme_order_id |-> "", pagarme_charge_id |-> "",
                  stripe_payment_intent_id |-> ""]]
  /\ \E q \in 1..MaxQty :
       order_items =
         [i \in {"i1", "i2", "i3"} |->
            IF i = "i1" THEN [order_id |-> "o1", event_date_id |-> "d1", ticket_type_id |-> "tt1", quantity |-> q]
            ELSE IF i = "i2" THEN [order_id |-> "o1", event_date_id |-> "d1", ticket_type_id |-> "tt2", quantity |-> 1]
            ELSE [order_id |-> "o2", event_date_id |-> "d1", ticket_type_id |-> "tt1", quantity |-> 1]]
  /\ \E a \in 0..LotTotal :
       /\ lots = [l \in LotIds |-> [total_quantity |-> LotTotal, available_quantity |-> a]]
       /\ ticket_types = [t \in TicketTypeIds |->
                            [lot_id |-> "l1", max_quantity |-> LotTotal,
                             sold_quantity |-> IF t = "tt1" THEN LotTotal - a ELSE 0]]
       /\ hist = [NoHist EXCEPT !.avail0 = [l \in LotIds |-> a]]
  /\ tickets = {}
  /\ webhook_events = {}
  /\ ticket_validations = {}
  /\ run = [p \in Runs |-> IdleRun]
  /\ scan = [s \in Scans |-> IdleScan]
  /\ now = 1
  /\ stripe_webhook_events = {}
  /\ cfg = Configured
  /\ call = NoCall

Next ==
  \/ \E p \in Runs, q \in SettlementRequests : HandleWebhook(p, q)
  \/ \E p \in Runs : HandleWebhook_Insert(p, FALSE)
  \/ \E p \in Runs : processOrderPayment_SetOrderID(p)
  \/ \E p \in Runs : processOrderPayment_SetChargeID(p)
  \/ \E p \in Runs : processOrderPayment_OrderByID(p)
  \/ \E p \in Runs : processOrderPayment_CreateTicket(p)
  \/ \E p \in Runs : processOrderPayment_IncrementSold(p)
  \/ \E p \in Runs : processOrderPayment_DecrementLot(p)
  \/ \E p \in Runs : processOrderPayment_ConfirmOrder(p)
  \/ \E p \in Runs : HandleWebhook_MarkProcessed(p)
  \/ \E o \in OrderIds : ExpireOrder(o)

Spec == Init /\ [][Next]_vars

(* ------------------- both webhook endpoints together ------------------- *)
\* Two orders of one unit each against a lot with one unit left; each
\* client's webhook secret is set or unset.
InitHooks ==
  /\ orders = [o \in OrderIds |->
                 [user_id |-> IF o = "o1" THEN "u1" ELSE "u2", status |-> "PENDING",
                  pagarme_order_id |-> "", pagarme_charge_id |-> "",
                  stripe_payment_intent_id |-> ""]]
  /\ order_items =
       [i \in {"i1", "i3"} |->
          IF i = "i1" THEN [order_id |-> "o1", event_date_id |-> "d1", ticket_type_id |-> "tt1", quantity |-> 1]
          ELSE [order_id |-> "o2", event_date_id |-> "d1", ticket_type_id |-> "tt1", quantity |-> 1]]
  /\ lots = [l \in LotIds |-> [total_quantity |-> LotTotal, available_quantity |-> 1]]
  /\ ticket_types = [t \in TicketTypeIds |->
                       [lot_id |-> "l1", max_quantity |-> LotTotal,
                        sold_quantity |-> IF t = "tt1" THEN LotTotal - 1 ELSE 0]]
  /\ hist = [NoHist EXCEPT !.avail0 = [l \in LotIds |-> 1]]
  /\ tickets = {}
  /\ webhook_events = {}
  /\ stripe_webhook_events = {}
  /\ ticket_validations = {}
  /\ run = [p \in Runs |-> IdleRun]
  /\ scan = [s \in Scans |-> IdleScan]
  /\ now = 1
  /\ \E ps \in WebhookSecrets, ss \in StripeWebhookSecrets :
       cfg = [PagarmeWebhookSecret |-> ps, StripeWebhookSecret |-> ss]
  /\ call = NoCall

NextHooks ==
  \/ \E p \in Runs, q \in 1..Len(PagarmeRequests) : HandleWebhook(p, q)
  \/ \E p \in Runs, dbErr \in BOOLEAN : HandleWebhook_Insert(p, dbErr)
  \/ \E p \in Runs : processOrderPayment_SetOrderID(p)
  \/ \E p \in Runs : processOrderPayment_SetChargeID(p)
  \/ \E p \in Runs : processOrderPayment_OrderByID(p)
  \/ \E p \in Runs : processOrderPayment_CreateTicket(p)
  \/ \E p \in Runs : processOrderPayment_IncrementSold(p)
  \/ \E p \in Runs : processOrderPayment_DecrementLot(p)
  \/ \E p \in Runs : processOrderPayment_ConfirmOrder(p)
  \/ \E p \in Runs : HandleWebhook_MarkProcessed(p)
  \/ \E p \in Runs, q \in 1..Len(StripeRequests) : Stripe_HandleWebhook(p, q)
  \/ \E p \in Runs, dbErr \in BOOLEAN, fetchErr \in BOOLEAN : Stripe_HandleWebhook_Insert(p, dbErr, fetchErr)
  \/ \E p \in Runs : handleCheckoutCompleted_SetPaymentIntentID(p)
  \/ \E p \in Runs : handleCheckoutCompleted_OrderByID(p)
  \/ \E p \in Runs : handleCheckoutCompleted_CreateTicket(p)
  \/ \E p \in Runs : handleCheckoutCompleted_IncrementSold(p)
  \/ \E p \in Runs : handleCheckoutCompleted_DecrementLot(p)
  \/ \E p \in Runs : handleCheckoutCompleted_ConfirmOrder(p)
  \/ \E p \in Runs : Stripe_HandleWebhook_MarkProcessed(p)

SpecHooks == InitHooks /\ [][NextHooks]_vars

(* ------------------------ one settlement run spec ---------------------- *)
\* one PENDING order o1 of q units of tier tt1, whose event date d1 exists or
\* whose event date d9 was deleted, and one PENDING order o2 of one unit of
\* each tier; the lot of both tiers holds a units
InitAlone ==
  /\ orders = [o \in OrderIds |->
                 [user_id |-> IF o = "o1" THEN "u1" ELSE "u2", status |-> "PENDING",
                  pagarme_order_id |-> "", pagarme_charge_id |-> "",
                  stripe_payment_intent_id |-> ""]]
  /\ \E q \in 1..MaxQty, d \in {"d1", "d9"} :
       order_items =
         [i \in {"i1", "i2", "i3"} |->
            IF i = "i1" THEN [order_id |-> "o1", event_date_id |-> d, ticket_type_id |-> "tt1", quantity |-> q]
            ELSE IF i = "i2" THEN [order_id |-> "o2", event_date_id |-> "d1", ticket_type_id |-> "tt2", quantity |-> 1]
            ELSE [order_id |-> "o2", event_date_id |-> "d1", ticket_type_id |-> "tt1", quantity |-> 1]]
  /\ \E a \in 0..LotTotal :
       /\ lots = [l \in LotIds |-> [total_quantity |-> LotTotal, available_quantity |-> a]]
       /\ ticket_types = [t \in TicketTypeIds |->
                            [lot_id |-> "l1", max_quantity |-> LotTotal,
                             sold_quantity |-> IF t = "tt1" THEN LotTotal - a ELSE 0]]
       /\ hist = [NoHist EXCEPT !.avail0 = [l \in LotIds |-> a]]
  /\ tickets = {}
  /\ webhook_events = {}
  /\ ticket_validations = {}
  /\ run = [p \in Runs |-> IdleRun]
  /\ scan = [s \in Scans |-> IdleScan]
  /\ now = 1
  /\ stripe_webhook_events = {}
  /\ cfg = Configured
  /\ call = NoCall

\* the first request the server receives, handled to its end
NextAlone ==
  \/ \E q \in 1..Len(PagarmeRequests) : HandleWebhook(1, q)
  \/ \E dbErr \in BOOLEAN : HandleWebhook_Insert(1, dbErr)
  \/ processOrderPayment_SetOrderID(1)
  \/ processOrderPayment_SetChargeID(1)
  \/ processOrderPayment_OrderByID(1)
  \/ processOrderPayment_CreateTicket(1)
  \/ processOrderPayment_IncrementSold(1)
  \/ processOrderPayment_DecrementLot(1)
  \/ processOrderPayment_ConfirmOrder(1)
  \/ HandleWebhook_MarkProcessed(1)
  \/ \E q \in 1..Len(StripeRequests) : Stripe_HandleWebhook(1, q)
  \/ \E dbErr \in BOOLEAN, fetchErr \in BOOLEAN : Stripe_HandleWebhook_Insert(1, dbErr, fetchErr)
  \/ handleCheckoutCompleted_SetPaymentIntentID(1)
  \/ handleCheckoutCompleted_OrderByID(1)
  \/ handleCheckoutCompleted_CreateTicket(1)
  \/ handleCheckoutCompleted_IncrementSold(1)
  \/ handleCheckoutCompleted_DecrementLot(1)
  \/ handleCheckoutCompleted_ConfirmOrder(1)
  \/ Stripe_HandleWebhook_MarkProcessed(1)
  \/ \E o \in OrderIds : ExpireOrder(o)

SpecAlone == InitAlone /\ [][NextAlone]_vars

(* --------------------------- redelivery spec --------------------------- *)
\* the positions a run can be in right after the ledger insert
AfterInsert == {"markProcessed", "setOrderID", "setChargeID", "orderByID",
                "s_markProcessed", "s_setPaymentIntentID", "s_orderByID"}

\* the process ends while a run is between the ledger insert and the status
\* re-check: the run executes no further statement and writes no response
Crash(p) ==
  LET r == run[p] IN
  /\ r.pc \in AfterInsert
  /\ r.orderUserID = ""
  /\ run' = [run EXCEPT ![p] = DoneRunOf(r, 0)]
  /\ hist' = [hist EXCEPT !.aborted = @ \cup {p}]
  /\ UNCHANGED <<stripe_webhook_events, cfg, call, orders, order_items, lots, ticket_types, tickets,
                 webhook_events, ticket_validations, scan, now>>

NextRedelivery ==
  \/ NextHooks
  \/ \E p \in Runs : Crash(p)

SpecRedelivery == InitHooks /\ [][NextRedelivery]_vars

(* ----------------------- client-facing payment spec -------------------- *)
\* In this specification the variable call holds the CreatePayment requests
\* (pay), the orders the processor holds, in the order of their creation
\* (processor), and the last answer of GetPaymentStatus (poll).
PayReqs == 1..NumPayments

PayIdle == [pc |-> "idle", userID |-> "", orderID |-> "", pix |-> "", response |-> 0]

PayDone(status) == [PayIdle EXCEPT !.pc = "done", !.response = status]

NoPoll == [code |-> 0, status |-> "", paid |-> FALSE]

NoPayCall == [pay |-> [c \in PayReqs |-> PayIdle], processor |-> <<>>, poll |-> NoPoll]

\* the ids the processor gives to its k-th order and to that order's charge
PixOrderId(k) == "or" \o ToString(k)

PixChargeId(k) == "ch" \o ToString(k)

\* Client.GetOrderStatus: an error (fetchErr: the call failed, or the
\* processor holds no such order), else the order's status
GetOrderStatus(processor, pagarmeOrderID, fetchErr) ==
  IF fetchErr \/ ~\E k \in 1..Len(processor) : PixOrderId(k) = pagarmeOrderID
  THEN [err |-> TRUE, Status |-> ""]
  ELSE [err |-> FALSE,
        Status |-> processor[CHOOSE k \in 1..Len(processor) : PixOrderId(k) = pagarmeOrderID].status]

\* repository.GetOrderPagarmeOrderID: "" when NULL or when there is no row
GetOrderPagarmeOrderID(ords, orderID) ==
  IF orderID \in DOMAIN ords THEN ords[orderID].pagarme_order_id ELSE ""

\* CreatePayment's check for an existing processor order: the stored id is
\* not empty and GetOrderStatus answers a status other than canceled, failed
ExistingOrderIsLive(ords, processor, orderID, fetchErr) ==
  LET existingOrderID == GetOrderPagarmeOrderID(ords, orderID)
      orderStatus == GetOrderStatus(processor, existingOrderID, fetchErr) IN
  /\ existingOrderID # ""
  /\ ~orderStatus.err /\ orderStatus.Status \notin {"canceled", "failed"}

\* CreatePayment up to the call of CreatePixOrder: the request checks, the
\* order's owner and status, the existing processor order, the items
CreatePayment(c, method, userID, orderID, fetchErr) ==
  LET o == OrderByID(orders, orderID)
      items == OrderItemsByOrderID(order_items, orderID)
      status ==
        IF method # "POST" THEN 405
        ELSE IF userID = "" THEN 401
        ELSE IF orderID = "" THEN 400
        ELSE IF o.err \/ o.userID = "" THEN 404
        ELSE IF o.userID # userID THEN 403
        ELSE IF o.status # "PENDING" THEN 400
        ELSE IF ExistingOrderIsLive(orders, call.processor, orderID, fetchErr) THEN 200
        ELSE IF Len(items) = 0 THEN 400
        ELSE IF \E k \in 1..Len(items) : ItemEvent(items[k]) = "" THEN 400
        ELSE 0 IN
  /\ call.pay[c].pc = "idle"
  /\ \A c2 \in 1..(c - 1) : call.pay[c2].pc # "idle"
  /\ call' = [call EXCEPT !.pay[c] =
                 IF status # 0 THEN PayDone(status)
                 ELSE [PayIdle EXCEPT !.pc = "createPix", !.userID = userID, !.orderID = orderID]]
  /\ UNCHANGED <<orders, order_items, lots, ticket_types, tickets, webhook_events,
                 stripe_webhook_events, ticket_validations, run, scan, now, hist, cfg>>

\* h.client.CreatePixOrder: the processor creates an order with a pending
\* charge, or the call fails and the handler answers 500
CreatePayment_CreatePixOrder(c, err) ==
  LET r == call.pay[c]
      k == Len(call.processor) + 1 IN
  /\ r.pc = "createPix"
  /\ call' = IF err THEN [call EXCEPT !.pay[c] = PayDone(500)]
             ELSE [call EXCEPT !.processor = Append(@, [code |-> r.orderID, status |-> "pending"]),
                               !.pay[c] = [r EXCEPT !.pc = "persist", !.pix = PixOrderId(k)]]
  /\ UNCHANGED <<orders, order_items, lots, ticket_types, tickets, webhook_events,
                 stripe_webhook_events, ticket_validations, run, scan, now, hist, cfg>>

\* SetOrderPagarmeOrderID, SetOrderPagarmeChargeID and the 200 response
CreatePayment_Persist(c) ==
  LET r == call.pay[c]
      k == CHOOSE j \in 1..Len(call.processor) : PixOrderId(j) = r.pix IN
  /\ r.pc = "persist"
  /\ orders' = SetOrderPagarmeChargeID(SetOrderPagarmeOrderID(orders, r.orderID, r.pix),
                                        r.orderID, PixChargeId(k))
  /\ call' = [call EXCEPT !.pay[c] = [r EXCEPT !.pc = "done", !.response = 200]]
  /\ UNCHANGED <<order_items, lots, ticket_types, tickets, webhook_events,
                 stripe_webhook_events, ticket_validations, run, scan, now, hist, cfg>>

\* the answer of GetPaymentStatus
GetPaymentStatus_Response(method, userID, orderID, fetchErr) ==
  LET o == OrderByID(orders, orderID)
      pagarmeOrderID == GetOrderPagarmeOrderID(orders, orderID)
      pagarmeStatus == GetOrderStatus(call.processor, pagarmeOrderID, fetchErr) IN
  IF method # "GET" THEN [code |-> 405, status |-> "", paid |-> FALSE]
  ELSE IF userID = "" THEN [code |-> 401, status |-> "", paid |-> FALSE]
  ELSE IF orderID = "" THEN [code |-> 400, status |-> "", paid |-> FALSE]
  ELSE IF o.err \/ o.userID = "" THEN [code |-> 404, status |-> "", paid |-> FALSE]
  ELSE IF o.userID # userID THEN [code |-> 403, status |-> "", paid |-> FALSE]
  ELSE IF o.status \in {"CONFIRMED", "PAID"} THEN [code |-> 200, status |-> "paid", paid |-> TRUE]
  ELSE IF pagarmeOrderID = "" THEN [code |-> 200, status |-> "no_payment", paid |-> FALSE]
  ELSE IF pagarmeStatus.err THEN [code |-> 200, status |-> "unknown", paid |-> FALSE]
  ELSE [code |-> 200, status |-> pagarmeStatus.Status, paid |-> pagarmeStatus.Status = "paid"]

\* the polling handler that confirms the order when the processor says paid
GetPaymentStatus_Confirming(method, userID, orderID, fetchErr) ==
  LET resp == GetPaymentStatus_Response(method, userID, orderID, fetchErr) IN
  /\ call' = [call EXCEPT !.poll = resp]
  /\ orders' = IF resp.paid THEN ConfirmOrder(orders, orderID) ELSE orders
  /\ UNCHANGED <<order_items, lots, ticket_types, tickets, webhook_events,
                 stripe_webhook_events, ticket_validations, run, scan, now, hist, cfg>>

\* GetPaymentStatus: reads the order and the processor, writes nothing
GetPaymentStatus(method, userID, orderID, fetchErr) ==
  /\ call' = [call EXCEPT !.poll = GetPaymentStatus_Response(method, userID, orderID, fetchErr)]
  /\ UNCHANGED <<orders, order_items, lots, ticket_types, tickets, webhook_events,
                 stripe_webhook_events, ticket_validations, run, scan, now, hist, cfg>>

\* the processor's side: the customer pays the charge, or the order is
\* canceled or fails
Processor_Update(k, status) ==
  /\ k \in 1..Len(call.processor)
  /\ call.processor[k].status = "pending"
  /\ call' = [call EXCEPT !.processor[k].status = status]
  /\ UNCHANGED <<orders, order_items, lots, ticket_types, tickets, webhook_events,
                 stripe_webhook_events, ticket_validations, run, scan, now, hist, cfg>>

InitPay ==
  /\ orders = [o \in OrderIds |->
                 [user_id |-> IF o = "o1" THEN "u1" ELSE "u2", status |-> "PENDING",
                  pagarme_order_id |-> "", pagarme_charge_id |-> "",
                  stripe_payment_intent_id |-> ""]]
  /\ order_items =
       [i \in {"i1", "i3"} |->
          IF i = "i1" THEN [order_id |-> "o1", event_date_id |-> "d1", ticket_type_id |-> "tt1", quantity |-> 1]
          ELSE [order_id |-> "o2", event_date_id |-> "d1", ticket_type_id |-> "tt1", quantity |-> 1]]
  /\ lots = [l \in LotIds |-> [total_quantity |-> LotTotal, available_quantity |-> LotTotal]]
  /\ ticket_types = [t \in TicketTypeIds |->
                       [lot_id |-> "l1", max_quantity |-> LotTotal, sold_quantity |-> 0]]
  /\ hist = [NoHist EXCEPT !.avail0 = [l \in LotIds |-> LotTotal]]
  /\ tickets = {}
  /\ webhook_events = {}
  /\ stripe_webhook_events = {}
  /\ ticket_validations = {}
  /\ run = [p \in Runs |-> IdleRun]
  /\ scan = [s \in Scans |-> IdleScan]
  /\ now = 1
  /\ cfg = Configured
  /\ call = NoPayCall

\* two CreatePayment requests, polling, the processor and one webhook run
NextPay ==
  \/ \E c \in PayReqs, method \in {"POST", "GET"}, userID \in {"", "u1", "u2"},
        orderID \in {"", "o1", "o9"}, fetchErr \in BOOLEAN :
       CreatePayment(c, method, userID, orderID, fetchErr)
  \/ \E c \in PayReqs, err \in BOOLEAN : CreatePayment_CreatePixOrder(c, err)
  \/ \E c \in PayReqs : CreatePayment_Persist(c)
  \/ \E method \in {"POST", "GET"}, userID \in {"", "u1", "u2"},
        orderID \in {"", "o1", "o9"}, fetchErr \in BOOLEAN :
       GetPaymentStatus(method, userID, orderID, fetchErr)
  \/ \E k \in PayReqs, status \in {"paid", "canceled", "failed"} : Processor_Update(k, status)
  \/ \E q \in {1} : HandleWebhook(1, q)
  \/ HandleWebhook_Insert(1, FALSE)
  \/ processOrderPayment_SetOrderID(1)
  \/ processOrderPayment_SetChargeID(1)
  \/ processOrderPayment_OrderByID(1)
  \/ processOrderPayment_CreateTicket(1)
  \/ processOrderPayment_IncrementSold(1)
  \/ processOrderPayment_DecrementLot(1)
  \/ processOrderPayment_ConfirmOrder(1)
  \/ HandleWebhook_MarkProcessed(1)

SpecPay == InitPay /\ [][NextPay]_vars

(* ------------------------- settlement: claims -------------------------- *)
TicketsOfItem(i) == {t \in tickets : t.order_item_id = i}

TicketsOfLot(l) == {t \in tickets : LotIDByTicketTypeID(ticket_types, t.ticket_type_id) = l}

ItemsOfOrder(o) == {i \in DOMAIN order_items : order_items[i].order_id = o}

\* the runs that passed signature verification
Authenticated == {p \in Runs : run[p].n.id # ""}

\* a run between a ticket insert and the lot decrement that follows it
MidUnit(p) == run[p].pc \in {"incSold", "decLot"}

\* C1: however many times one notification (one external event id) is
\* delivered, and however the handler runs interleave, its order gets at most
\* one ticket per unit of each order item and exactly one PENDING->PAID
\* transition.
C1_ReplayIssuesOneTicketSet ==
  (\A p, q \in Authenticated : run[p].n.id = run[q].n.id) =>
    \A o \in OrderIds :
      /\ \A i \in ItemsOfOrder(o) : Cardinality(TicketsOfItem(i)) <= order_items[i].quantity
      /\ hist.confirmApplied[o] <= 1
      /\ orders[o].status = "PAID" => hist.confirmApplied[o] = 1

\* C2: notifications with different external ids that resolve to one order
\* (order.paid and charge.paid of one payment) materialize its tickets once:
\* no order item ever has more tickets than its quantity.
C2_TwoNotificationsIssueOneTicketSet ==
  (\A p, q \in Authenticated : p # q => run[p].n.id # run[q].n.id) =>
    \A i \in DOMAIN order_items : Cardinality(TicketsOfItem(i)) <= order_items[i].quantity

\* C3: no ticket is issued for a unit whose lot decrement did not apply: the
\* tickets issued against a lot number at most the decrements applied to it.
\* Taken at the states where no run is between a ticket insert and its lot
\* decrement (the code inserts first, so in between it fails trivially).
C3_NoTicketWithoutDecrement ==
  (\A p \in Runs : ~MidUnit(p)) =>
    \A l \in LotIds :
      /\ Cardinality(TicketsOfLot(l)) <= hist.decApplied[l]
      /\ Cardinality(TicketsOfLot(l)) <= hist.avail0[l]

\* C4: 0 <= available_quantity <= total_quantity for every lot, in every
\* reachable state, with concurrent settlement runs decrementing one lot.
C4_AvailableWithinBounds ==
  \A l \in LotIds :
    /\ 0 <= lots[l].available_quantity
    /\ lots[l].available_quantity <= lots[l].total_quantity

\* the lot ran out while settlement runs of different orders decremented it:
\* decrements were applied and at least one was declined
C4_Witness ==
  \E l \in LotIds :
    /\ lots[l].available_quantity = 0
    /\ hist.decApplied[l] >= 1
    /\ hist.decDeclined[l] >= 1
    /\ \E p, q \in Runs : run[p].n.code # "" /\ run[q].n.code # "" /\ run[p].n.code # run[q].n.code

\* C5: a run that settles, alone and without insert errors, an order whose
\* first item has quantity q against a lot holding a < q units issues exactly
\* a tickets for that item, leaves available_quantity at 0 and the order PAID
\* (stated for 1 <= a < q, which holds the scenario q = 2, a = 1).
C5_OversellIssuesOnlyAvailable ==
  \A o \in OrderIds :
    LET items == OrderItemsByOrderID(order_items, o)
        first == items[1]
        l == LotIDByTicketTypeID(ticket_types, order_items[first].ticket_type_id) IN
    ( /\ run[1].pc = "done" /\ run[1].n.code = o
      /\ \A p \in Runs \ {1} : run[p].pc = "idle"
      /\ hist.confirmApplied[o] + hist.confirmNoop[o] >= 1
      /\ hist.insertErrs = 0
      /\ orders[o].status \notin {"EXPIRED", "CANCELED"}
      /\ 1 <= hist.avail0[l]
      /\ hist.avail0[l] < order_items[first].quantity )
    => /\ Cardinality(TicketsOfItem(first)) = hist.avail0[l]
       /\ lots[l].available_quantity = 0
       /\ orders[o].status = "PAID"

\* C8: an order becomes PAID only from PENDING and only through the guarded
\* ConfirmOrder update; a PAID order never changes status again, and an
\* EXPIRED or CANCELED order is never moved to PAID.
C8_PaidIsTerminal ==
  [][\A o \in OrderIds :
       /\ orders[o].status = "PAID" => orders'[o].status = "PAID"
       /\ (orders'[o].status = "PAID" /\ orders[o].status # "PAID") =>
            /\ orders[o].status = "PENDING"
            /\ hist'.confirmApplied[o] = hist.confirmApplied[o] + 1
       /\ orders[o].status \in {"EXPIRED", "CANCELED"} => orders'[o].status = orders[o].status]_vars

\* ConfirmOrder was re-applied to an order that was already PAID, and did nothing
C8_Witness ==
  \E o \in OrderIds :
    /\ orders[o].status = "PAID"
    /\ hist.confirmApplied[o] = 1
    /\ hist.confirmNoop[o] >= 1

\* C22: in every reachable state each tier's sold_quantity is at most its
\* max_quantity, and no step decreases it.
C22_SoldWithinMax ==
  /\ [](\A t \in TicketTypeIds : ticket_types[t].sold_quantity <= ticket_types[t].max_quantity)
  /\ [][\A t \in TicketTypeIds :
          ticket_types'[t].sold_quantity >= ticket_types[t].sold_quantity]_vars

\* sold_quantity of a tier before any settlement ran
Sold0(t) == IF t = "tt1" THEN LotTotal - hist.avail0["l1"] ELSE 0

\* the tickets of a tier
TicketsOfTier(t) == {tk \in tickets : tk.ticket_type_id = t}

\* the runs that inserted a ticket of tier t and have their increment ahead
IncrementAhead(t) ==
  {p \in Runs : run[p].pc = "incSold" /\
                order_items[RunItems(run[p])[run[p].k]].ticket_type_id = t}

IssuedTickets ==
  CreateTicketWithID(
    CreateTicketWithID({}, TicketId(1, 1, 0),
      GenerateSignedPayloadV2(Str(TicketId(1, 1, 0)), Str("ch1"), Str("e1"), JWTSecret),
      "o1", "i1", "u1", "e1", "d1", "tt1"),
    TicketId(2, 1, 0),
    GenerateSignedPayloadV2(Str(TicketId(2, 1, 0)), Str("ch2"), Str("e2"), JWTSecret),
    "o2", "i3", "u2", "e2", "d2", "tt2")

\* the strings a scanner may present: the stored token of each ticket, a
\* legacy token, a token signed with another secret, a validly signed token
\* of a ticket that does not exist, and the tokens of an existing and of a
\* missing ticket with the last hex digit flipped.  ticket: the ticket the
\* token was signed for with the server secret ("" when there is none);
\* names: the ticket id written in the payload; valid: signed with the
\* server secret and unaltered.
ScanTokens ==
  << [qr |-> GenerateSignedPayloadV2(Str(TicketId(1, 1, 0)), Str("ch1"), Str("e1"), JWTSecret),
      ticket |-> TicketId(1, 1, 0), names |-> TicketId(1, 1, 0), valid |-> TRUE],
     [qr |-> GenerateSignedPayloadV2(Str(TicketId(2, 1, 0)), Str("ch2"), Str("e2"), JWTSecret),
      ticket |-> TicketId(2, 1, 0), names |-> TicketId(2, 1, 0), valid |-> TRUE],
     [qr |-> GenerateSignedPayload(Str(TicketId(1, 1, 0)), JWTSecret),
      ticket |-> TicketId(1, 1, 0), names |-> TicketId(1, 1, 0), valid |-> TRUE],
     [qr |-> GenerateSignedPayloadV2(Str(TicketId(1, 1, 0)), Str("ch1"), Str("e1"), "s2"),
      ticket |-> "", names |-> TicketId(1, 1, 0), valid |-> FALSE],
     [qr |-> GenerateSignedPayloadV2(Str(TicketId(0, 0, 0)), Str("ch1"), Str("e1"), JWTSecret),
      ticket |-> "", names |-> TicketId(0, 0, 0), valid |-> TRUE],
     [qr |-> FlipLast(GenerateSignedPayloadV2(Str(TicketId(1, 1, 0)), Str("ch1"), Str("e1"), JWTSecret)),
      ticket |-> "", names |-> TicketId(1, 1, 0), valid |-> FALSE],
     [qr |-> FlipLast(GenerateSignedPayloadV2(Str(TicketId(0, 0, 0)), Str("ch1"), Str("e1"), JWTSecret)),
      ticket |-> "", names |-> TicketId(0, 0, 0), valid |-> FALSE] >>

\* verification of a scanned string under a secret: the extended shape
\* first, then the legacy one
verifyQRCodeWith(qrCode, secret) ==
  LET v2 == VerifySignedPayloadV2(qrCode, secret)
      v1 == VerifySignedPayload(qrCode, secret) IN
  IF v2.ok THEN [ok |-> TRUE, ticketID |-> v2.ticketID]
  ELSE [ok |-> v1.ok, ticketID |-> v1.ticketID]

\* validateTicket's token step, under the server secret
verifyQRCode(qrCode) == verifyQRCodeWith(qrCode, JWTSecret)

\* the token step applied to each string a scanner may present
Verified == [tok \in 1..Len(ScanTokens) |-> verifyQRCode(ScanTokens[tok].qr)]

\* validateTicket(eventId, qrCode) after the token step v: resolve the
\* ticket, compare its event with the event in focus, compare the event's
\* producer with the authenticated producer.  code = "" when every check
\* passed.
validateTicket_Checks(tks, v, eventId, producerID) ==
  LET t == TicketByID(tks, v.ticketID) IN
  IF ~v.ok THEN [code |-> "INVALID_TOKEN", row |-> NoTicket]
  ELSE IF t.nil THEN [code |-> "NOT_FOUND", row |-> NoTicket]
  ELSE IF t.row.event_id # eventId THEN [code |-> "WRONG_EVENT", row |-> t.row]
  ELSE IF EventProducerID(t.row.event_id) # producerID THEN [code |-> "NOT_AUTHORIZED", row |-> t.row]
  ELSE [code |-> "", row |-> t.row]

validateTicket(s) ==
  /\ scan[s].pc = "idle"
  /\ \A q \in 1..(s - 1) : scan[q].pc # "idle"
  /\ \E tok \in 1..Len(ScanTokens), eventId \in EventIds, producerID \in ProducerIds :
       LET c == validateTicket_Checks(tickets, Verified[tok], eventId, producerID)
           req == [IdleScan EXCEPT !.tok = tok, !.eventId = eventId, !.producerID = producerID] IN
       scan' = [scan EXCEPT ![s] =
                  IF c.code # "" THEN [req EXCEPT !.pc = "done", !.result = c.code]
                  ELSE [req EXCEPT !.pc = "flip", !.ticketID = c.row.id, !.readUsed = c.row.used]]
  /\ UNCHANGED <<stripe_webhook_events, cfg, call, orders, order_items, lots, ticket_types, tickets, webhook_events,
                 ticket_validations, run, now, hist>>

\* the guarded flip; zero rows affected means ALREADY_USED
validateTicket_MarkUsed(s) ==
  LET m == MarkTicketUsedIfNotUsed(tickets, scan[s].ticketID, now) IN
  /\ scan[s].pc = "flip"
  /\ tickets' = m.tickets
  /\ scan' = [scan EXCEPT ![s] =
                IF m.updated THEN [@ EXCEPT !.pc = "log"]
                ELSE [@ EXCEPT !.pc = "done", !.result = "ALREADY_USED"]]
  /\ UNCHANGED <<stripe_webhook_events, cfg, call, orders, order_items, lots, ticket_types, webhook_events,
                 ticket_validations, run, now, hist>>

\* the audit record of a successful redemption, then the success result
validateTicket_InsertValidation(s) ==
  /\ scan[s].pc = "log"
  /\ ticket_validations' =
       InsertTicketValidation(ticket_validations, "v" \o ToString(s), scan[s].ticketID,
                              scan[s].eventId, scan[s].producerID, now)
  /\ scan' = [scan EXCEPT ![s] = [@ EXCEPT !.pc = "done", !.result = "SUCCESS"]]
  /\ UNCHANGED <<stripe_webhook_events, cfg, call, orders, order_items, lots, ticket_types, tickets, webhook_events,
                 run, now, hist>>

\* time passes: datetime('now') moves on
Tick ==
  /\ now < MaxClock
  /\ now' = now + 1
  /\ UNCHANGED <<stripe_webhook_events, cfg, call, orders, order_items, lots, ticket_types, tickets, webhook_events,
                 ticket_validations, run, scan, hist>>

\* everything but the tickets, the validation log, the scans and the clock
QuietTables ==
  /\ orders = [o \in OrderIds |->
                 [user_id |-> IF o = "o1" THEN "u1" ELSE "u2", status |-> "PAID",
                  pagarme_order_id |-> "", pagarme_charge_id |-> "",
                  stripe_payment_intent_id |-> ""]]
  /\ order_items = << >>
  /\ lots = [l \in LotIds |-> [total_quantity |-> LotTotal, available_quantity |-> 0]]
  /\ ticket_types = [t \in TicketTypeIds |->
                       [lot_id |-> "l1", max_quantity |-> LotTotal, sold_quantity |-> 0]]
  /\ webhook_events = {}
  /\ stripe_webhook_events = {}
  /\ run = [p \in Runs |-> IdleRun]
  /\ hist = NoHist
  /\ cfg = Configured
  /\ call = NoCall

InitRedeem ==
  /\ QuietTables
  /\ tickets = IssuedTickets
  /\ ticket_validations = {}
  /\ scan = [s \in Scans |-> IdleScan]
  /\ now = 1

NextRedeem ==
  \/ \E s \in Scans : validateTicket(s)
  \/ \E s \in Scans : validateTicket_MarkUsed(s)
  \/ \E s \in Scans : validateTicket_InsertValidation(s)
  \/ Tick

SpecRedeem == InitRedeem /\ [][NextRedeem]_vars

(* -------------------- the ticket repository alone ---------------------- *)
RepoTicketIds == {TicketId(1, 1, i) : i \in 0..(MaxRepoTickets - 1)}

Repo_CreateTicketWithID(id) ==
  /\ \A r \in tickets : r.id # id
  /\ tickets' = CreateTicketWithID(tickets, id,
                  GenerateSignedPayloadV2(Str(id), Str("ch1"), Str("e1"), JWTSecret),
                  "o1", "i1", "u1", "e1", "d1", "tt1")
  /\ UNCHANGED <<stripe_webhook_events, cfg, call, orders, order_items, lots, ticket_types, webhook_events,
                 ticket_validations, run, scan, now, hist>>

Repo_MarkTicketUsed(id) ==
  /\ tickets' = MarkTicketUsed(tickets, id, now)
  /\ UNCHANGED <<stripe_webhook_events, cfg, call, orders, order_items, lots, ticket_types, webhook_events,
                 ticket_validations, run, scan, now, hist>>

Repo_MarkTicketUsedIfNotUsed(id) ==
  /\ tickets' = MarkTicketUsedIfNotUsed(tickets, id, now).tickets
  /\ UNCHANGED <<stripe_webhook_events, cfg, call, orders, order_items, lots, ticket_types, webhook_events,
                 ticket_validations, run, scan, now, hist>>

InitTickets ==
  /\ QuietTables
  /\ tickets = {}
  /\ ticket_validations = {}
  /\ scan = [s \in Scans |-> IdleScan]
  /\ now = 1

NextTickets ==
  \/ \E id \in RepoTicketIds : Repo_CreateTicketWithID(id)
  \/ \E id \in RepoTicketIds : Repo_MarkTicketUsed(id)
  \/ \E id \in RepoTicketIds : Repo_MarkTicketUsedIfNotUsed(id)
  \/ Tick

SpecTickets == InitTickets /\ [][NextTickets]_vars

(* ----------------------- the token codec alone ------------------------- *)
\* the secrets a caller passes; "" is the unset secret
CodecSecrets == {"", "default-secret", "s1", "s2"}

\* ticket ids: empty, a uuid, ids with "." inside, ids with ":" inside (the
\* last one reads as three fields)
CodecTicketIds ==
  { <<>>, <<"t100">>, <<"t100", ".", "t101">>, <<"t100", ":", "t101">>,
    <<"t100", ":", "ch1", ":", "e1">> }

\* transaction ids: none, a charge id, one with ":" inside
CodecChargeIds == { <<>>, <<"ch1">>, <<"ch1", ":", "ch2">> }

\* event ids: a uuid, one with "." inside, one with ":" inside
CodecEventIds == { <<"e1">>, <<"e1", ".", "e2">>, <<"e1", ":", "e2">> }

\* what is done to a token between signing and verification: the
\* malformations VerifySignedPayload tests for, and a flipped last digit
StructuralDamages == {"nosep", "lead", "trail", "nonhex", "odd", "short", "long"}

Damages == StructuralDamages \cup {"flip"}

Damage(token, d) ==
  LET idx == LastIndex(token, separator)
      data == SubSeq(token, 1, idx)
      code == SubSeq(token, idx + 2, Len(token)) IN
  IF d = "nosep" THEN data \o code
  ELSE IF d = "lead" THEN <<separator>> \o code
  ELSE IF d = "trail" THEN data \o <<separator>>
  ELSE IF d = "nonhex" THEN [token EXCEPT ![Len(token)] = "x"]
  ELSE IF d = "odd" THEN SubSeq(token, 1, Len(token) - 1)
  ELSE IF d = "short" THEN SubSeq(token, 1, Len(token) - 2)
  ELSE IF d = "long" THEN token \o <<"0", "0">>
  ELSE FlipLast(token)

\* a caller signs the fields of call with call.signSecret
Codec_Generate ==
  /\ call.pc = "input"
  /\ call' = [call EXCEPT !.pc = "token", !.token =
                IF call.shape = "legacy" THEN GenerateSignedPayload(call.ticketID, call.signSecret)
                ELSE GenerateSignedPayloadV2(call.ticketID, call.chargeID, call.eventID,
                                             call.signSecret)]
  /\ UNCHANGED <<stripe_webhook_events, cfg, orders, order_items, lots, ticket_types, tickets,
                 webhook_events, ticket_validations, run, scan, now, hist>>

\* the token is altered on its way to the verifier
Codec_Damage(d) ==
  /\ call.pc = "token"
  /\ call.damage = ""
  /\ call' = [call EXCEPT !.damage = d, !.token = Damage(call.token, d)]
  /\ UNCHANGED <<stripe_webhook_events, cfg, orders, order_items, lots, ticket_types, tickets,
                 webhook_events, ticket_validations, run, scan, now, hist>>

\* a caller verifies the token with call.verifySecret: by each verifier, and
\* by the extended one with the legacy one as fallback
Codec_Verify ==
  /\ call.pc = "token"
  /\ call' = [call EXCEPT !.pc = "verified",
                !.legacy = VerifySignedPayload(call.token, call.verifySecret),
                !.v2 = VerifySignedPayloadV2(call.token, call.verifySecret),
                !.qr = verifyQRCodeWith(call.token, call.verifySecret)]
  /\ UNCHANGED <<stripe_webhook_events, cfg, orders, order_items, lots, ticket_types, tickets,
                 webhook_events, ticket_validations, run, scan, now, hist>>

InitCodec ==
  /\ orders = [o \in OrderIds |->
                 [user_id |-> IF o = "o1" THEN "u1" ELSE "u2", status |-> "PAID",
                  pagarme_order_id |-> "", pagarme_charge_id |-> "",
                  stripe_payment_intent_id |-> ""]]
  /\ order_items = << >>
  /\ lots = [l \in LotIds |-> [total_quantity |-> LotTotal, available_quantity |-> 0]]
  /\ ticket_types = [t \in TicketTypeIds |->
                       [lot_id |-> "l1", max_quantity |-> LotTotal, sold_quantity |-> 0]]
  /\ webhook_events = {}
  /\ stripe_webhook_events = {}
  /\ run = [p \in Runs |-> IdleRun]
  /\ hist = NoHist
  /\ cfg = Configured
  /\ tickets = {}
  /\ ticket_validations = {}
  /\ scan = [s \in Scans |-> IdleScan]
  /\ now = 1
  /\ \E s1 \in CodecSecrets, s2 \in CodecSecrets, t \in CodecTicketIds :
       \/ call = [NoCall EXCEPT !.pc = "input", !.shape = "legacy", !.ticketID = t,
                                !.signSecret = s1, !.verifySecret = s2]
       \/ \E c \in CodecChargeIds, e \in CodecEventIds :
            call = [NoCall EXCEPT !.pc = "input", !.shape = "v2", !.ticketID = t,
                                  !.chargeID = c, !.eventID = e,
                                  !.signSecret = s1, !.verifySecret = s2]

NextCodec ==
  \/ Codec_Generate
  \/ \E d \in Damages : Codec_Damage(d)
  \/ Codec_Verify

SpecCodec == InitCodec /\ [][NextCodec]_vars

(* ----------------- the timestamped signature scheme alone -------------- *)
\* Unix times a Stripe-Signature header is stamped with
SigTimestamps == {-300, -299, 1, 301, 302}

\* the secrets a header is signed with: the endpoint's and another one
SigSigners == {"wh1", "wh2"}

\* JSON bodies
SigBodies == {<<"sevt1">>, <<"sevt4">>}

\* the shapes of a header: t and one v1; a v1 of another secret before the
\* signer's; blanks after the commas; v1 before t; no t; no v1; the
\* signature under the scheme name v0
SigForms == {"single", "rotation", "spaces", "v1first", "not", "nov1", "v0only"}

\* the shapes that carry a timestamp and the signer's v1
SigFormsWithV1 == {"single", "rotation", "spaces", "v1first"}

\* the header of shape form stamped t, signed by signer for body
SigHeader(form, signer, t, body) ==
  LET ts == ToString(t)
      good == StripeV1(signer, ts, body)
      other == StripeV1(IF signer = "wh1" THEN "s1" ELSE "wh1", ts, body) IN
  IF form = "single" THEN <<"t", "=", ts, ",", "v1", "=">> \o good
  ELSE IF form = "rotation"
  THEN <<"t", "=", ts, ",", "v1", "=">> \o other \o <<",", "v1", "=">> \o good
  ELSE IF form = "spaces" THEN <<" ", "t", "=", ts, ",", " ", "v1", "=">> \o good \o <<" ">>
  ELSE IF form = "v1first" THEN <<"v1", "=">> \o good \o <<",", "t", "=", ts>>
  ELSE IF form = "not" THEN <<"v1", "=">> \o good
  ELSE IF form = "nov1" THEN <<"t", "=", ts>>
  ELSE <<"t", "=", ts, ",", "v0", "=">> \o good

NoSigCall == [pc |-> "input", form |-> "", signer |-> "", t |-> 0, signedBody |-> <<>>,
              payload |-> <<>>, err |-> FALSE, event |-> NoNotification]

\* the endpoint verifies the request at the clock's reading
Sig_VerifyWebhookSignature ==
  LET v == Stripe_VerifyWebhookSignature(cfg.StripeWebhookSecret, call.payload,
             SigHeader(call.form, call.signer, call.t, call.signedBody), now) IN
  /\ call.pc = "input"
  /\ call' = [call EXCEPT !.pc = "verified", !.err = v.err, !.event = v.event]
  /\ UNCHANGED <<stripe_webhook_events, cfg, orders, order_items, lots, ticket_types, tickets,
                 webhook_events, ticket_validations, run, scan, now, hist>>

InitSig ==
  /\ orders = [o \in OrderIds |->
                 [user_id |-> IF o = "o1" THEN "u1" ELSE "u2", status |-> "PENDING",
                  pagarme_order_id |-> "", pagarme_charge_id |-> "",
                  stripe_payment_intent_id |-> ""]]
  /\ order_items = << >>
  /\ lots = [l \in LotIds |-> [total_quantity |-> LotTotal, available_quantity |-> 0]]
  /\ ticket_types = [t \in TicketTypeIds |->
                       [lot_id |-> "l1", max_quantity |-> LotTotal, sold_quantity |-> 0]]
  /\ webhook_events = {}
  /\ stripe_webhook_events = {}
  /\ run = [p \in Runs |-> IdleRun]
  /\ hist = NoHist
  /\ cfg = Configured
  /\ tickets = {}
  /\ ticket_validations = {}
  /\ scan = [s \in Scans |-> IdleScan]
  /\ now \in 1..MaxClock
  /\ \E form \in SigForms, signer \in SigSigners, t \in SigTimestamps,
        signedBody \in SigBodies, payload \in SigBodies :
       call = [NoSigCall EXCEPT !.form = form, !.signer = signer, !.t = t,
                                !.signedBody = signedBody, !.payload = payload]

NextSig == Sig_VerifyWebhookSignature

SpecSig == InitSig /\ [][NextSig]_vars

(* --------------------- the idempotency ledgers alone ------------------- *)
\* external event ids and event types the ledger statements are called with
LedgerEventIds == {"evt1", "sevt1"}

LedgerEventTypes == {"order.paid", "charge.paid"}

\* the last ledger statement executed and the error it returned
NoLedgerCall == [fn |-> "", eventID |-> "", eventType |-> "", err |-> FALSE]

Ledger_InsertPagarmeWebhookEvent(eventID, eventType) ==
  LET ins == InsertPagarmeWebhookEvent(webhook_events, eventID, eventType) IN
  /\ webhook_events' = ins.rows
  /\ call' = [fn |-> "InsertPagarmeWebhookEvent", eventID |-> eventID,
              eventType |-> eventType, err |-> ins.err]
  /\ UNCHANGED <<stripe_webhook_events, cfg, orders, order_items, lots, ticket_types, tickets,
                 ticket_validations, run, scan, now, hist>>

Ledger_InsertWebhookEvent(eventID, eventType) ==
  LET ins == InsertWebhookEvent(stripe_webhook_events, eventID, eventType) IN
  /\ stripe_webhook_events' = ins.rows
  /\ call' = [fn |-> "InsertWebhookEvent", eventID |-> eventID,
              eventType |-> eventType, err |-> ins.err]
  /\ UNCHANGED <<webhook_events, cfg, orders, order_items, lots, ticket_types, tickets,
                 ticket_validations, run, scan, now, hist>>

Ledger_MarkPagarmeWebhookEventProcessed(eventID) ==
  /\ webhook_events' = MarkPagarmeWebhookEventProcessed(webhook_events, eventID)
  /\ call' = [fn |-> "MarkPagarmeWebhookEventProcessed", eventID |-> eventID,
              eventType |-> "", err |-> FALSE]
  /\ UNCHANGED <<stripe_webhook_events, cfg, orders, order_items, lots, ticket_types, tickets,
                 ticket_validations, run, scan, now, hist>>

Ledger_MarkWebhookEventProcessed(eventID) ==
  /\ stripe_webhook_events' = MarkWebhookEventProcessed(stripe_webhook_events, eventID)
  /\ call' = [fn |-> "MarkWebhookEventProcessed", eventID |-> eventID,
              eventType |-> "", err |-> FALSE]
  /\ UNCHANGED <<webhook_events, cfg, orders, order_items, lots, ticket_types, tickets,
                 ticket_validations, run, scan, now, hist>>

InitLedger ==
  /\ orders = [o \in OrderIds |->
                 [user_id |-> IF o = "o1" THEN "u1" ELSE "u2", status |-> "PENDING",
                  pagarme_order_id |-> "", pagarme_charge_id |-> "",
                  stripe_payment_intent_id |-> ""]]
  /\ order_items = << >>
  /\ lots = [l \in LotIds |-> [total_quantity |-> LotTotal, available_quantity |-> 0]]
  /\ ticket_types = [t \in TicketTypeIds |->
                       [lot_id |-> "l1", max_quantity |-> LotTotal, sold_quantity |-> 0]]
  /\ webhook_events = {}
  /\ stripe_webhook_events = {}
  /\ run = [p \in Runs |-> IdleRun]
  /\ hist = NoHist
  /\ cfg = Configured
  /\ tickets = {}
  /\ ticket_validations = {}
  /\ scan = [s \in Scans |-> IdleScan]
  /\ now = 1
  /\ call = NoLedgerCall

NextLedger ==
  \/ \E e \in LedgerEventIds, t \in LedgerEventTypes : Ledger_InsertPagarmeWebhookEvent(e, t)
  \/ \E e \in LedgerEventIds, t \in LedgerEventTypes : Ledger_InsertWebhookEvent(e, t)
  \/ \E e \in LedgerEventIds : Ledger_MarkPagarmeWebhookEventProcessed(e)
  \/ \E e \in LedgerEventIds : Ledger_MarkWebhookEventProcessed(e)

SpecLedger == InitLedger /\ [][NextLedger]_vars

(* ------------------------- redemption: claims -------------------------- *)
\* the existing ticket a request's token was signed for, "" when none
TokenTicket(s) == IF scan[s].tok = 0 THEN "" ELSE ScanTokens[scan[s].tok].ticket

TicketRow(id) == CHOOSE r \in tickets : r.id = id

\* the requests that flipped ticket id, and those the flip turned away
Winners(id) == {s \in Scans : scan[s].ticketID = id /\ (scan[s].pc = "log" \/ scan[s].result = "SUCCESS")}

Losers(id) == {s \in Scans : scan[s].ticketID = id /\ scan[s].result = "ALREADY_USED"}

\* C6: of the redemption attempts against one unused ticket that pass the
\* token, event and ownership checks, exactly one succeeds and every other
\* one gets ALREADY_USED, also when all of them read the ticket as unused.
C6_ExactlyOneRedemption ==
  \A t \in tickets :
    /\ Cardinality(Winners(t.id)) <= 1
    /\ (Winners(t.id) \cup Losers(t.id) # {}) => Cardinality(Winners(t.id)) = 1
    /\ \A s \in Scans :
         (scan[s].ticketID = t.id /\ scan[s].pc = "done") =>
           scan[s].result \in {"SUCCESS", "ALREADY_USED"}
    /\ (t.used = 1) <=> (Winners(t.id) # {})

\* two attempts on one ticket both read it unused; one won, the other got ALREADY_USED
C6_Witness ==
  \E s1, s2 \in Scans :
    /\ s1 # s2
    /\ scan[s1].ticketID # "" /\ scan[s1].ticketID = scan[s2].ticketID
    /\ scan[s1].readUsed = 0 /\ scan[s2].readUsed = 0
    /\ scan[s1].result = "SUCCESS"
    /\ scan[s2].result = "ALREADY_USED"

\* C9: a request whose ticket belongs to another event than the one in focus
\* always ends WRONG_EVENT, never reaches the flip, and a ticket that only
\* such requests named stays unused.
C9_WrongEventNeverRedeems ==
  /\ \A s \in Scans :
       (TokenTicket(s) # "" /\ TicketRow(TokenTicket(s)).event_id # scan[s].eventId) =>
         /\ scan[s].pc = "done"
         /\ scan[s].result = "WRONG_EVENT"
  /\ \A t \in tickets :
       (\A s \in Scans : TokenTicket(s) = t.id => t.event_id # scan[s].eventId) => t.used = 0
  /\ \A v \in ticket_validations : v.event_id = TicketRow(v.ticket_id).event_id

\* the producer of the event in focus scanned a ticket of another event
C9_Witness ==
  \E s \in Scans :
    /\ TokenTicket(s) # ""
    /\ scan[s].result = "WRONG_EVENT"
    /\ scan[s].producerID = events[scan[s].eventId].producer_id
    /\ TicketRow(TokenTicket(s)).event_id # scan[s].eventId
    /\ TicketRow(TokenTicket(s)).used = 0

BadToken(s) == scan[s].tok # 0 /\ ~ScanTokens[scan[s].tok].valid

\* C19: a request whose token fails verification ends INVALID_TOKEN in its
\* first step, before any ticket is looked up, whatever ticket the token
\* names and whatever its state, event or producer; it never reaches the
\* flip, so a ticket that only such requests name stays unused.
C19_TamperedIsInvalidToken ==
  /\ \A s \in Scans :
       BadToken(s) =>
         /\ scan[s].pc = "done"
         /\ scan[s].result = "INVALID_TOKEN"
         /\ scan[s].ticketID = ""
  /\ \A t \in tickets :
       (\A s \in Scans : (scan[s].tok # 0 /\ ScanTokens[scan[s].tok].names = t.id) => BadToken(s)) =>
         t.used = 0
  /\ \A v \in ticket_validations :
       \E s \in Scans : ~BadToken(s) /\ scan[s].ticketID = v.ticket_id

\* the token of an existing ticket with its last digit flipped was turned
\* away as INVALID_TOKEN while that ticket was already used, by a producer
\* other than the one of its event
C19_Witness ==
  \E s \in Scans :
    /\ scan[s].tok = 6
    /\ scan[s].result = "INVALID_TOKEN"
    /\ TicketRow(ScanTokens[6].names).used = 1
    /\ scan[s].producerID # events[TicketRow(ScanTokens[6].names).event_id].producer_id

\* the validation records of ticket id
ValidationsOf(id) == {v \in ticket_validations : v.ticket_id = id}

\* C21: under every interleaving of redemption requests, every validation
\* record refers to an existing ticket whose used flag is 1, a ticket has at
\* most one record, a request that ended SUCCESS left exactly one record of
\* its ticket, and no step updates or deletes a record.
C21_ValidationLogConsistent ==
  /\ [](/\ \A v \in ticket_validations :
             \E t \in tickets : t.id = v.ticket_id /\ t.used = 1
        /\ \A t \in tickets : Cardinality(ValidationsOf(t.id)) <= 1
        /\ \A s \in Scans :
             scan[s].result = "SUCCESS" => Cardinality(ValidationsOf(scan[s].ticketID)) = 1)
  /\ [][ticket_validations \subseteq ticket_validations']_vars

\* two requests redeemed the two tickets: each ticket is used and has its
\* one record, and the first record is still there after the second insert
C21_Witness ==
  /\ \A t \in tickets : t.used = 1 /\ Cardinality(ValidationsOf(t.id)) = 1
  /\ Cardinality(ticket_validations) = 2
  /\ \A s \in Scans : scan[s].result = "SUCCESS"

(* --------------------------- ledger: claims ---------------------------- *)
\* the rows of each ledger for an external event id
PagarmeRowsOf(eventID) == {r \in webhook_events : r.pagarme_event_id = eventID}

StripeRowsOf(eventID) == {r \in stripe_webhook_events : r.stripe_event_id = eventID}

\* C24: every insert into a ledger returns without error and leaves exactly
\* one row for its external id, however often and in whatever order the id
\* was inserted before; an insert of an id that has a row leaves the ledger
\* as it is; no external id ever has two rows.
C24_InsertOrIgnore ==
  /\ [](/\ \A e \in LedgerEventIds :
             Cardinality(PagarmeRowsOf(e)) <= 1 /\ Cardinality(StripeRowsOf(e)) <= 1
        /\ call.fn = "InsertPagarmeWebhookEvent" =>
             ~call.err /\ Cardinality(PagarmeRowsOf(call.eventID)) = 1
        /\ call.fn = "InsertWebhookEvent" =>
             ~call.err /\ Cardinality(StripeRowsOf(call.eventID)) = 1)
  /\ [][/\ (call'.fn = "InsertPagarmeWebhookEvent" /\ PagarmeRowsOf(call'.eventID) # {}) =>
             UNCHANGED webhook_events
        /\ (call'.fn = "InsertWebhookEvent" /\ StripeRowsOf(call'.eventID) # {}) =>
             UNCHANGED stripe_webhook_events]_vars

\* an id was inserted again, with another event type, after its row was
\* marked processed: the one row is the first one, still processed
C24_Witness ==
  /\ call.fn = "InsertPagarmeWebhookEvent"
  /\ ~call.err
  /\ \E r \in webhook_events :
       /\ r.pagarme_event_id = call.eventID
       /\ r.event_type # call.eventType
       /\ r.processed = 1
  /\ Cardinality(PagarmeRowsOf(call.eventID)) = 1

(* ------------------------- signature: claims --------------------------- *)
\* C25: the endpoint accepts a request exactly when its header carries a
\* timestamp t and a v1 candidate that is the hex HMAC of "t.body" for the
\* body received under the endpoint's secret, and t is at most 300 seconds
\* from now in either direction; one matching candidate among several is
\* enough.
C25_AcceptsIffSignedAndFresh ==
  call.pc = "verified" =>
    (~call.err <=>
       /\ call.form \in SigFormsWithV1
       /\ call.signer = cfg.StripeWebhookSecret
       /\ call.signedBody = call.payload
       /\ call.t - now <= TimestampTolerance
       /\ now - call.t <= TimestampTolerance)

\* a header whose second v1 candidate is the endpoint's was accepted with
\* its timestamp exactly 300 seconds ahead of the clock
C25_Witness ==
  /\ call.pc = "verified"
  /\ call.form = "rotation"
  /\ call.t - now = TimestampTolerance
  /\ ~call.err
  /\ call.event.id = "sevt1"

(* ---------------------- ticket repository: claims ---------------------- *)
\* C7: used is a one-way latch and used_at is written once: no repository
\* operation takes used from 1 to 0 or changes the used_at of a used ticket,
\* and used_at is null (0) exactly while used = 0.
C7_UsedAtWrittenOnce ==
  [][\A r \in tickets :
       \E r2 \in tickets' :
         /\ r2.id = r.id
         /\ r2.used >= r.used
         /\ r.used = 1 => r2.used_at = r.used_at
         /\ (r2.used = 0) <=> (r2.used_at = 0)]_vars

(* --------------------------- webhooks: claims -------------------------- *)
\* the tables of the datastore
Tables == <<orders, order_items, lots, ticket_types, tickets, webhook_events,
            stripe_webhook_events, ticket_validations>>

\* the request a run carries and the webhook secret of its endpoint
RequestOf(r) == IF r.endpoint = "pagarme" THEN PagarmeRequests[r.q] ELSE StripeRequests[r.q]

SecretOf(r) ==
  IF r.endpoint = "pagarme" THEN cfg.PagarmeWebhookSecret ELSE cfg.StripeWebhookSecret

\* a readable POST that fails authentication: no or a malformed signature
\* header, a signature that does not match, a stale timestamp, or no webhook
\* secret configured
FailsAuthentication(r) ==
  /\ RequestOf(r).method = "POST" /\ ~RequestOf(r).readErr
  /\ RequestOf(r).kind \in {"missing", "malformed", "mismatch", "stale"} \/ SecretOf(r) = ""

\* a readable POST whose signature is the processor's, with a secret configured
Authenticated_Request(r) ==
  /\ RequestOf(r).method = "POST" /\ ~RequestOf(r).readErr
  /\ RequestOf(r).kind = "signed" /\ SecretOf(r) # ""

\* the run p starts with this step
Starts(p) == run[p].pc = "idle" /\ run'[p].pc # "idle"

\* the ledger of a run's endpoint holds the external id of its event
InLedger(r) ==
  IF r.endpoint = "pagarme"
  THEN \E e \in webhook_events : <<e.pagarme_event_id>> = RequestOf(r).payload
  ELSE \E e \in stripe_webhook_events : <<e.stripe_event_id>> = RequestOf(r).payload

\* C11: a webhook request that fails authentication is answered with 400 in
\* the step that receives it, and that step changes no table: no ledger row,
\* no order, ticket or inventory row.
C11_AuthFailureHasNoEffect ==
  [][\A p \in Runs :
       (Starts(p) /\ FailsAuthentication(run'[p])) =>
         /\ run'[p].pc = "done"
         /\ run'[p].response = 400
         /\ run'[p].n = NoNotification
         /\ UNCHANGED Tables]_vars

\* with both secrets configured, a Stripe request with a stale timestamp and
\* a Pagar.me request with a wrong signature were both answered 400, and
\* the ledgers, orders and tickets are as they were at the start
C11_Witness ==
  /\ cfg = Configured
  /\ \E p1, p2 \in Runs :
       /\ run[p1].endpoint = "stripe" /\ RequestOf(run[p1]).kind = "stale"
       /\ run[p1].pc = "done" /\ run[p1].response = 400
       /\ run[p2].endpoint = "pagarme" /\ RequestOf(run[p2]).kind = "mismatch"
       /\ run[p2].pc = "done" /\ run[p2].response = 400
  /\ webhook_events = {} /\ stripe_webhook_events = {} /\ tickets = {}
  /\ \A o \in OrderIds : orders[o].status = "PENDING"

\* C12: an authenticated notification whose external id is already in the
\* ledger is acknowledged with 200 in the step that receives it, and that
\* step changes no table: the ledger row and its processed flag, orders,
\* tickets and inventory stay as they are.
C12_SeenIsAcknowledgedUnchanged ==
  [][\A p \in Runs :
       (Starts(p) /\ Authenticated_Request(run'[p]) /\ InLedger(run'[p])) =>
         /\ run'[p].pc = "done"
         /\ run'[p].response = 200
         /\ run'[p].seen
         /\ UNCHANGED Tables]_vars

\* a delivery was acknowledged at the idempotency check while the ledger row
\* of its event was not yet marked processed
C12_Witness ==
  \E p \in Runs :
    /\ run[p].pc = "done" /\ run[p].seen /\ run[p].response = 200
    /\ run[p].endpoint = "pagarme"
    /\ \E e \in webhook_events : e.pagarme_event_id = run[p].n.id /\ e.processed = 0

\* the positions of a run inside the settlement of its order
Settling == {"createTicket", "incSold", "decLot", "confirm",
             "s_createTicket", "s_incSold", "s_decLot", "s_confirm"}

\* C13: a run that finds its order not PENDING at the status re-check goes
\* straight to the acknowledgement: it creates no ticket, changes no
\* quantity and no order status, and ends with 200; so once an order is
\* PAID and no run is inside its settlement, its tickets never change.
C13_NotPendingIsNoop ==
  [][/\ \A p \in Runs :
          (/\ run[p].pc \in {"orderByID", "s_orderByID"}
           /\ run'[p] # run[p]
           /\ run[p].n.code \in DOMAIN orders
           /\ orders[run[p].n.code].status # "PENDING") =>
            /\ run'[p].pc \in {"markProcessed", "s_markProcessed"}
            /\ UNCHANGED Tables
     /\ \A p \in Runs :
          (run[p].pc \in {"markProcessed", "s_markProcessed"} /\ run'[p] # run[p]) =>
            /\ run'[p].pc = "done" /\ run'[p].response = 200
            /\ UNCHANGED <<orders, order_items, lots, ticket_types, tickets>>
     /\ \A o \in OrderIds :
          (/\ orders[o].status = "PAID"
           /\ \A p \in Runs : run[p].n.code = o => run[p].pc \notin Settling) =>
            {t \in tickets' : t.order_id = o} = {t \in tickets : t.order_id = o}]_vars

\* a run was acknowledged with 200 after it found its order PAID at the
\* re-check: its event is in the ledger and it never read the order's user
C13_Witness ==
  \E p \in Runs :
    /\ run[p].pc \in {"markProcessed", "s_markProcessed"}
    /\ run[p].n.code \in DOMAIN orders
    /\ run[p].n.type \in {"order.paid", "charge.paid", "checkout.session.completed"}
    /\ run[p].orderUserID = ""
    /\ orders[run[p].n.code].status = "PAID"
    /\ {t \in tickets : t.order_id = run[p].n.code} # {}

\* C14: a finished request was answered 200, 400 or 405, never 5xx; it was
\* answered 200 exactly when it was a readable POST carrying the
\* processor's signature with the secret configured (a signed body that is
\* no JSON counts as malformed), whatever branch the handler took.
C14_AuthenticatedIsAcknowledged ==
  \A p \in Runs :
    /\ run[p].pc = "done" =>
         /\ run[p].response \in {200, 400, 405}
         /\ (run[p].response = 200) <=> Authenticated_Request(run[p])
    /\ run[p].pc \notin {"idle", "done"} => Authenticated_Request(run[p])

\* 200 was answered to an event whose order does not exist and to an event
\* type the handler does not route, one of them after a failed ledger insert
C14_Witness ==
  \E p1, p2 \in Runs :
    /\ run[p1].pc = "done" /\ run[p1].response = 200 /\ run[p1].n.id = "evt6"
    /\ run[p2].pc = "done" /\ run[p2].response = 200 /\ run[p2].n.id = "sevt4"
    /\ run[p1].ledgerErr \/ run[p2].ledgerErr

\* the tickets a run inserted
TicketsOfRun(p) == {t \in tickets : \E k \in 1..Len(ItemIds), i \in 0..MaxQty : t.id = TicketId(p, k, i)}

\* C15: a delivery whose ledger insert failed is answered with a 5xx status
\* and applies no settlement effect: it inserts no ticket.
C15_LedgerFailureIsRejected ==
  \A p \in Runs :
    run[p].ledgerErr =>
      /\ TicketsOfRun(p) = {}
      /\ run[p].pc = "done" => run[p].response \in 500..599

(* ---------------------------- codec: claims ---------------------------- *)
\* the string holds no field delimiter
NoColon(s) == \A i \in 1..Len(s) : s[i] # ":"

\* the token reached the verifier as it was signed
Intact == call.pc = "verified" /\ call.damage = ""

\* C16: a token verified unaltered with the secret it was signed with gives
\* back what was signed, with ok: the ticket id for the legacy shape when it
\* is non-empty (also with "." inside), the three fields for the extended
\* shape when none holds ":" (also with an empty transaction id).
C16_RoundTrip ==
  (Intact /\ call.signSecret = call.verifySecret) =>
    /\ (call.shape = "legacy" /\ call.ticketID # <<>>) =>
         call.legacy = [ticketID |-> call.ticketID, ok |-> TRUE]
    /\ (call.shape = "v2" /\ NoColon(call.ticketID) /\ NoColon(call.chargeID)
                          /\ NoColon(call.eventID)) =>
         call.v2 = [ticketID |-> call.ticketID, chargeID |-> call.chargeID,
                    eventID |-> call.eventID, ok |-> TRUE]

\* an extended token with "." inside its ticket id and its event id and no
\* transaction id came back whole
C16_Witness ==
  /\ Intact /\ call.signSecret = call.verifySecret
  /\ call.shape = "v2"
  /\ call.ticketID = <<"t100", ".", "t101">>
  /\ call.chargeID = <<>>
  /\ call.eventID = <<"e1", ".", "e2">>
  /\ call.v2.ok /\ call.v2.ticketID = call.ticketID /\ call.v2.eventID = call.eventID

\* C17: a token signed with one secret is rejected by the verifier of its
\* shape under every other secret, the empty secret included.
C17_CrossSecretRejected ==
  (Intact /\ call.signSecret # call.verifySecret) =>
    /\ call.shape = "legacy" => ~call.legacy.ok
    /\ call.shape = "v2" => ~call.v2.ok

\* the token's code is not the MAC of its payload portion: its last digit
\* was flipped, or it is verified under another key than it was signed with
CodeDiffers ==
  \/ call.damage = "flip"
  \/ /\ call.damage = ""
     /\ call.signSecret # call.verifySecret
     /\ {call.signSecret, call.verifySecret} # {"", "default-secret"}

\* C18: both verifiers answer a malformed token and a token whose code is
\* not the MAC of its payload portion with the same value: empty fields and
\* ok = false.
C18_FailuresIndistinguishable ==
  (call.pc = "verified" /\ (call.damage \in StructuralDamages \/ CodeDiffers)) =>
    /\ call.legacy = [ticketID |-> <<>>, ok |-> FALSE]
    /\ call.v2 = V2Fail

CreatorOf(t) == CHOOSE p \in Runs : t \in TicketsOfRun(p)

\* C26: the token stored with every ticket a settlement run inserted
\* verifies as an extended token under the server secret and gives back
\* the ticket's id, the ticket's event_id and the charge / payment-intent id
\* of the notification the inserting run handled; a ticket is inserted
\* with used = 0 and no used_at.
C26_StoredTokenBindsTicket ==
  /\ [](\A t \in tickets :
          VerifySignedPayloadV2(t.qr_code, JWTSecret) =
            [ticketID |-> Str(t.id), chargeID |-> Str(run[CreatorOf(t)].n.charge_id),
             eventID |-> Str(t.event_id), ok |-> TRUE])
  /\ [][\A t \in tickets' \ tickets : t.used = 0 /\ t.used_at = 0]_vars

\* both processors' handlers inserted a ticket, for different orders, and
\* the two tokens carry different transaction ids
C26_Witness ==
  \E t1, t2 \in tickets :
    /\ run[CreatorOf(t1)].endpoint = "pagarme"
    /\ run[CreatorOf(t2)].endpoint = "stripe"
    /\ VerifySignedPayloadV2(t1.qr_code, JWTSecret).chargeID
         # VerifySignedPayloadV2(t2.qr_code, JWTSecret).chargeID
    /\ t1.event_id = "e1"

(* ---------------------- unresolvable orders: claims -------------------- *)
\* the run carries an authenticated notification of a routed type whose order
\* reference is missing or names no order row
Unresolvable(r) ==
  /\ r.n.type \in {"order.paid", "charge.paid", "checkout.session.completed"}
  /\ r.n.code \notin DOMAIN orders

\* the ledger row of the run's event
LedgerRowsOf(r) ==
  IF r.endpoint = "pagarme"
  THEN {e \in webhook_events : e.pagarme_event_id = r.n.id}
  ELSE {e \in stripe_webhook_events : e.stripe_event_id = r.n.id}

C28_SettledOrderRowUnchanged ==
  [][\A p \in Runs :
       (/\ run'[p] # run[p]
        /\ run[p].n.code \in DOMAIN orders
        /\ orders[run[p].n.code].status # "PENDING") =>
         orders'[run[p].n.code] = orders[run[p].n.code]]_vars

(* --------------------------- redelivery: claims ------------------------ *)
\* the run carries a notification of a type that is routed to a settlement
Routed(r) == r.n.type \in {"order.paid", "charge.paid", "checkout.session.completed"}

\* the run recorded its notification in the ledger and then ended before the
\* status re-check: the process ended, or the session could not be fetched
RecordedUnsettled(p) == p \in hist.aborted /\ ~run[p].ledgerErr

\* C29: once a run has recorded notification n and ended before the status
\* re-check (the process ended after the insert, or the fetch of the session
\* failed), a delivery of n that arrives is acknowledged with 200 in the step
\* that receives it and that step changes no table, whatever the processed
\* flag of the ledger row; and an order is PAID only through a run that was
\* neither turned away by the ledger nor ended early.
C29_RecordedNotificationStaysGated ==
  /\ [][\A p1, p2 \in Runs :
         (/\ RecordedUnsettled(p1) /\ run[p1].pc = "done"
          /\ Starts(p2) /\ Authenticated_Request(run'[p2])
          /\ run'[p2].endpoint = run[p1].endpoint
          /\ RequestOf(run'[p2]).payload = RequestOf(run[p1]).payload) =>
           /\ run'[p2].pc = "done" /\ run'[p2].response = 200 /\ run'[p2].seen
           /\ UNCHANGED Tables]_vars
  /\ [](\A o \in OrderIds :
         orders[o].status = "PAID" =>
           \E p \in Runs : /\ run[p].n.code = o /\ Routed(run[p])
                            /\ ~run[p].seen /\ p \notin hist.aborted)

\* the process ended after a run recorded sevt1 (its ledger row is not marked
\* processed, no response was written), a redelivery of sevt1 was turned away
\* with 200, and order o1 is PENDING without a ticket
C29_Witness ==
  \E p1, p2 \in Runs :
    /\ RecordedUnsettled(p1) /\ run[p1].pc = "done" /\ run[p1].response = 0
    /\ run[p1].n.id = "sevt1" /\ run[p2].n.id = "sevt1"
    /\ \E e \in stripe_webhook_events : e.stripe_event_id = "sevt1" /\ e.processed = 0
    /\ run[p2].seen /\ run[p2].pc = "done" /\ run[p2].response = 200
    /\ orders["o1"].status = "PENDING"
    /\ tickets = {}

(* ------------------------ settlement alone: claims --------------------- *)
\* the units the items in S ask for
RECURSIVE Quantity(_)
Quantity(S) ==
  IF S = {} THEN 0
  ELSE LET i == CHOOSE x \in S : TRUE IN order_items[i].quantity + Quantity(S \ {i})

\* the items of order o on tier t, and on the tiers of lot l
ItemsOnTier(o, t) == {i \in ItemsOfOrder(o) : order_items[i].ticket_type_id = t}

ItemsOnLot(o, l) ==
  {i \in ItemsOfOrder(o) : LotIDByTicketTypeID(ticket_types, order_items[i].ticket_type_id) = l}

\* run p settled alone: it is finished after passing the ledger gate with a
\* routed notification for an existing order, no other run ever started, no
\* statement or fetch failed, the order was not expired or canceled, every
\* item resolves to an event and every lot held the units asked of it
SettledAlone(p) ==
  LET o == run[p].n.code IN
  /\ run[p].pc = "done" /\ ~run[p].seen /\ Routed(run[p])
  /\ o \in DOMAIN orders
  /\ \A p2 \in Runs \ {p} : run[p2].pc = "idle"
  /\ ~run[p].ledgerErr /\ hist.insertErrs = 0 /\ p \notin hist.aborted
  /\ orders[o].status \notin {"EXPIRED", "CANCELED"}
  /\ \A i \in ItemsOfOrder(o) : ItemEvent(i) # ""
  /\ \A l \in LotIds : Quantity(ItemsOnLot(o, l)) <= hist.avail0[l]

\* C30: a settlement run that executed alone and without datastore errors
\* for a PENDING order whose items resolve and whose lots held enough units
\* has ended with 200, the order PAID, exactly quantity tickets for every
\* item of the order, all unused, every tier's sold_quantity raised and every
\* lot's available_quantity lowered by the units of the order's items on it,
\* and the ledger row of its notification marked processed.
C30_SettlesAlone ==
  \A p \in Runs :
    SettledAlone(p) =>
      LET o == run[p].n.code IN
      /\ run[p].response = 200
      /\ orders[o].status = "PAID"
      /\ \A i \in ItemsOfOrder(o) :
           /\ Cardinality(TicketsOfItem(i)) = order_items[i].quantity
           /\ \A t \in TicketsOfItem(i) : t.used = 0 /\ t.order_id = o
      /\ tickets = UNION {TicketsOfItem(i) : i \in ItemsOfOrder(o)}
      /\ \A t \in TicketTypeIds :
           ticket_types[t].sold_quantity = Sold0(t) + Quantity(ItemsOnTier(o, t))
      /\ \A l \in LotIds :
           lots[l].available_quantity = hist.avail0[l] - Quantity(ItemsOnLot(o, l))
      /\ LedgerRowsOf(run[p]) # {}
      /\ \A e \in LedgerRowsOf(run[p]) : e.processed = 1

\* a run settled order o1 alone: two units of tier tt1 from a lot that held
\* two; o1 is PAID with two unused tickets, tt1 is sold out and the lot is
\* empty
C30_Witness ==
  \E p \in Runs :
    /\ SettledAlone(p)
    /\ run[p].n.code = "o1"
    /\ order_items["i1"].quantity = 2
    /\ hist.avail0["l1"] = 2
    /\ orders["o1"].status = "PAID"
    /\ Cardinality(tickets) = 2
    /\ \A t \in tickets : t.used = 0
    /\ lots["l1"].available_quantity = 0
    /\ ticket_types["tt1"].sold_quantity = 2

(* ---------------------- confirmation without tickets ------------------ *)
\* run p went alone through the settlement of an existing order that was not
\* expired or canceled: it is finished, was not turned away by the ledger
\* and did not end before the status re-check
RanAlone(p) ==
  /\ run[p].pc = "done" /\ ~run[p].seen /\ Routed(run[p])
  /\ run[p].n.code \in DOMAIN orders
  /\ \A p2 \in Runs \ {p} : run[p2].pc = "idle"
  /\ p \notin hist.aborted
  /\ orders[run[p].n.code].status \notin {"EXPIRED", "CANCELED"}

\* the items of order o whose event date and event exist
Resolvable(o) == {i \in ItemsOfOrder(o) : ItemEvent(i) # ""}

\* C31: a settlement run confirms its order whatever tickets it issued: the
\* order is PAID, and its tickets are the units of its resolvable items less
\* the failed inserts, which is no ticket at all when no item resolves or
\* every insert failed.
C31_PaidWhateverTickets ==
  \A p \in Runs :
    RanAlone(p) =>
      LET o == run[p].n.code IN
      /\ orders[o].status = "PAID"
      /\ Cardinality({t \in tickets : t.order_id = o}) = Quantity(Resolvable(o)) - hist.insertErrs
      /\ Resolvable(o) = {} => tickets = {}

\* order o1 asks for two units of an event date that no longer exists while
\* the lot holds two: no insert failed, o1 is PAID, there is no ticket and
\* the lot still holds two
C31_Witness ==
  \E p \in Runs :
    /\ RanAlone(p) /\ run[p].n.code = "o1"
    /\ order_items["i1"].event_date_id = "d9" /\ order_items["i1"].quantity = 2
    /\ hist.insertErrs = 0 /\ hist.avail0["l1"] = 2
    /\ orders["o1"].status = "PAID"
    /\ tickets = {}
    /\ lots["l1"].available_quantity = 2

(* ------------------------ decrements and tickets ----------------------- *)
\* C32: every lot decrement of a settlement follows a persisted ticket of
\* that lot: the units taken from a lot since the start number at most the
\* tickets issued against it, so for a lot that started full
\* total_quantity - available_quantity is at most its number of tickets.
C32_DecrementFollowsTicket ==
  \A l \in LotIds :
    /\ hist.avail0[l] - lots[l].available_quantity <= Cardinality(TicketsOfLot(l))
    /\ hist.decApplied[l] = hist.avail0[l] - lots[l].available_quantity
    /\ hist.avail0[l] = lots[l].total_quantity =>
         lots[l].total_quantity - lots[l].available_quantity <= Cardinality(TicketsOfLot(l))

\* the lot started full; one ticket insert failed and one succeeded: the lot
\* gave up one unit, for the one ticket there is, and every run has ended
C32_Witness ==
  \E l \in LotIds :
    /\ hist.avail0[l] = lots[l].total_quantity
    /\ hist.insertErrs = 1
    /\ Cardinality(TicketsOfLot(l)) = 1
    /\ lots[l].available_quantity = lots[l].total_quantity - 1
    /\ \E p \in Runs : run[p].pc = "done" /\ run[p].n.code # ""
    /\ \A p \in Runs : run[p].pc \in {"idle", "done"}

(* ------------------------ client polling: claims ----------------------- *)
\* C33: a step of GetPaymentStatus changes no table (no order status, no
\* ticket, no tier, no lot, no ledger row), whatever it answers; an order
\* turns PAID only in the confirmation step of a webhook settlement run, and
\* tickets and inventory change only in steps of a webhook run.
C33_PollingIsReadOnly ==
  /\ [][call.poll' # call.poll => UNCHANGED Tables]_vars
  /\ [][\A o \in OrderIds :
         (orders[o].status # "PAID" /\ orders'[o].status = "PAID") =>
           \E p \in Runs : /\ run[p].pc = "confirm" /\ run[p].n.code = o
                            /\ run'[p].pc = "markProcessed"]_vars
  /\ [][(tickets' # tickets \/ lots' # lots \/ ticket_types' # ticket_types) =>
         \E p \in Runs : run'[p] # run[p]]_vars

\* the processor holds a paid order for o1 and the owner's poll was answered
\* paid, while o1 is PENDING, has no ticket and the lot is as at the start,
\* no webhook having arrived
C33_Witness ==
  /\ call.poll = [code |-> 200, status |-> "paid", paid |-> TRUE]
  /\ \E k \in 1..Len(call.processor) :
       /\ call.processor[k] = [code |-> "o1", status |-> "paid"]
       /\ orders["o1"].pagarme_order_id = PixOrderId(k)
  /\ orders["o1"].status = "PENDING"
  /\ tickets = {}
  /\ \A l \in LotIds : lots[l].available_quantity = hist.avail0[l]
  /\ \A p \in Runs : run[p].pc = "idle"

(* ------------------------ payment creation: claims --------------------- *)
\* the processor's orders for internal order o that are not canceled or failed
LiveOrders(o) ==
  {k \in 1..Len(call.processor) :
     call.processor[k].code = o /\ call.processor[k].status \notin {"canceled", "failed"}}

\* C34: at any time the processor holds at most one live order (neither
\* canceled nor failed) for an internal order, also with two CreatePayment
\* requests for the same order in flight.
C34_OneLiveProcessorOrder ==
  \A o \in OrderIds : Cardinality(LiveOrders(o)) <= 1

(* ------------------------ codec: the two shapes ------------------------ *)
\* the payload portion of the extended token of the call's fields
JoinedFields == call.ticketID \o <<":">> \o call.chargeID \o <<":">> \o call.eventID

\* C35: the legacy verifier accepts every unaltered extended token under the
\* secret it was signed with, and the ticket id it returns is the whole
\* "ticketId:transactionId:eventId" string, which is never the ticket id;
\* the extended verifier returns the ticket id when neither the ticket id
\* nor the transaction id holds ":".
C35_LegacyAcceptsExtended ==
  (Intact /\ call.shape = "v2" /\ call.signSecret = call.verifySecret) =>
    /\ call.legacy = [ticketID |-> JoinedFields, ok |-> TRUE]
    /\ call.legacy.ticketID # call.ticketID
    /\ (NoColon(call.ticketID) /\ NoColon(call.chargeID)) =>
         call.v2.ok /\ call.v2.ticketID = call.ticketID

\* the extended token of ticket t100, charge ch1 and event e1 was accepted by
\* the legacy verifier as ticket "t100:ch1:e1" and by the extended verifier
\* as ticket t100
C35_Witness ==
  /\ Intact /\ call.shape = "v2" /\ call.signSecret = "s1" /\ call.verifySecret = "s1"
  /\ call.ticketID = <<"t100">> /\ call.chargeID = <<"ch1">> /\ call.eventID = <<"e1">>
  /\ call.legacy = [ticketID |-> <<"t100", ":", "ch1", ":", "e1">>, ok |-> TRUE]
  /\ call.v2.ok /\ call.v2.ticketID = <<"t100">>

\* the triples the codec specification signs
CodecTriples == CodecTicketIds \X CodecChargeIds \X CodecEventIds

\* an unaltered extended token is verified under the secret that signed it
SignedV2 == Intact /\ call.shape = "v2" /\ call.signSecret = call.verifySecret

\* C36 as stated: for all field values, ":" inside included, the extended
\* verifier returns exactly the signed triple and no other triple gives the
\* same token under the same secret.
C36_InjectiveOnAllFields ==
  SignedV2 =>
    /\ call.v2 = [ticketID |-> call.ticketID, chargeID |-> call.chargeID,
                  eventID |-> call.eventID, ok |-> TRUE]
    /\ \A x \in CodecTriples :
         GenerateSignedPayloadV2(x[1], x[2], x[3], call.signSecret) = call.token =>
           x = <<call.ticketID, call.chargeID, call.eventID>>

\* C36 amended: for triples whose ticket id and transaction id hold no ":"
\* (the event id may), the extended verifier returns exactly the signed
\* triple and no other such triple gives the same token under the same
\* secret.
C36_InjectiveWithoutInnerDelimiter ==
  (SignedV2 /\ NoColon(call.ticketID) /\ NoColon(call.chargeID)) =>
    /\ call.v2 = [ticketID |-> call.ticketID, chargeID |-> call.chargeID,
                  eventID |-> call.eventID, ok |-> TRUE]
    /\ \A x \in CodecTriples :
         (/\ NoColon(x[1]) /\ NoColon(x[2])
          /\ GenerateSignedPayloadV2(x[1], x[2], x[3], call.signSecret) = call.token) =>
           x = <<call.ticketID, call.chargeID, call.eventID>>

\* the token of ticket t100, charge ch1 and event "e1:e2" came back as these
\* three fields
C36_Witness ==
  /\ SignedV2
  /\ call.ticketID = <<"t100">> /\ call.chargeID = <<"ch1">>
  /\ call.eventID = <<"e1", ":", "e2">>
  /\ call.v2 = [ticketID |-> <<"t100">>, chargeID |-> <<"ch1">>,
                eventID |-> <<"e1", ":", "e2">>, ok |-> TRUE]

(* --------------------------- the PIX split ----------------------------- *)
\* bounds of the split inputs, in centavos and tickets
MaxAmountCentavos == 6
MaxApplicationFee == 3
MaxTotalTickets == 3

\* c.PlatformRecipientID: unset or the platform's recipient
PlatformRecipientIds == {"", "re_platform"}

\* params.ProducerRecipientID
ProducerRecipientId == "re_producer"

\* the split array CreatePixOrder sends: the producer's entry, then the
\* platform's entry when a platform recipient is set and the fee is positive
CreatePixOrder_Split(ApplicationFee, PlatformRecipientID, AmountCentavos, TotalTickets) ==
  LET platformFee == ApplicationFee * TotalTickets
      remainder == AmountCentavos - platformFee
      producerAmount == IF remainder < 0 THEN 0 ELSE remainder
      producer == <<[recipient_id |-> ProducerRecipientId, amount |-> producerAmount]>> IN
  IF PlatformRecipientID # "" /\ platformFee > 0
  THEN producer \o <<[recipient_id |-> PlatformRecipientID, amount |-> platformFee]>>
  ELSE producer

\* the inputs of one CreatePixOrder call and the split it built
NoSplitCall == [pc |-> "input", ApplicationFee |-> 0, PlatformRecipientID |-> "",
                AmountCentavos |-> 0, TotalTickets |-> 0, split |-> <<>>]

Split_CreatePixOrder ==
  /\ call.pc = "input"
  /\ call' = [call EXCEPT !.pc = "built",
                           !.split = CreatePixOrder_Split(call.ApplicationFee,
                                       call.PlatformRecipientID, call.AmountCentavos,
                                       call.TotalTickets)]
  /\ UNCHANGED <<stripe_webhook_events, cfg, orders, order_items, lots, ticket_types, tickets,
                 webhook_events, ticket_validations, run, scan, now, hist>>

InitSplit ==
  /\ orders = [o \in OrderIds |->
                 [user_id |-> IF o = "o1" THEN "u1" ELSE "u2", status |-> "PENDING",
                  pagarme_order_id |-> "", pagarme_charge_id |-> "",
                  stripe_payment_intent_id |-> ""]]
  /\ order_items = << >>
  /\ lots = [l \in LotIds |-> [total_quantity |-> LotTotal, available_quantity |-> 0]]
  /\ ticket_types = [t \in TicketTypeIds |->
                       [lot_id |-> "l1", max_quantity |-> LotTotal, sold_quantity |-> 0]]
  /\ webhook_events = {}
  /\ stripe_webhook_events = {}
  /\ run = [p \in Runs |-> IdleRun]
  /\ hist = NoHist
  /\ cfg = Configured
  /\ tickets = {}
  /\ ticket_validations = {}
  /\ scan = [s \in Scans |-> IdleScan]
  /\ now = 1
  /\ \E fee \in 0..MaxApplicationFee, platform \in PlatformRecipientIds,
        amount \in 0..MaxAmountCentavos, n \in 1..MaxTotalTickets :
       call = [NoSplitCall EXCEPT !.ApplicationFee = fee, !.PlatformRecipientID = platform,
                                  !.AmountCentavos = amount, !.TotalTickets = n]

NextSplit == Split_CreatePixOrder

SpecSplit == InitSplit /\ [][NextSplit]_vars

RECURSIVE SplitSum(_)
\* the sum of the amounts of a split array
SplitSum(split) ==
  IF split = <<>> THEN 0 ELSE split[1].amount + SplitSum(Tail(split))

\* the amount a split array gives to recipient r
ShareOf(split, r) ==
  SplitSum(SelectSeq(split, LAMBDA e : e.recipient_id = r))

\* C37 as stated: in every split CreatePixOrder builds, the platform share
\* is ApplicationFee x TotalTickets, the producer share is the remainder,
\* both are non-negative and the amounts sum to AmountCentavos, with or
\* without a platform recipient.
C37_SplitSumsToAmount ==
  call.pc = "built" =>
    LET platformShare == IF call.PlatformRecipientID = "" THEN 0
                         ELSE ShareOf(call.split, call.PlatformRecipientID)
        producerShare == ShareOf(call.split, ProducerRecipientId) IN
    /\ platformShare = call.ApplicationFee * call.TotalTickets
    /\ producerShare = call.AmountCentavos - platformShare
    /\ platformShare >= 0 /\ producerShare >= 0
    /\ SplitSum(call.split) = call.AmountCentavos

(* ------------------------------ the seeds ------------------------------ *)
\* the number of times the seed command is run
MaxSeedRuns == 2

\* the tables clear deletes from, in its order
SeedTables == <<"tickets", "order_items", "orders", "ticket_types", "lots",
                "event_dates", "events", "producers", "users">>

\* child -> parent references declared ON DELETE CASCADE
CascadeRefs ==
  {<<"producers", "users">>, <<"events", "producers">>, <<"event_dates", "events">>,
   <<"lots", "event_dates">>, <<"ticket_types", "lots">>, <<"orders", "users">>,
   <<"order_items", "orders">>, <<"tickets", "users">>}

\* the references of ticket_validations, declared without an action
TicketValidationRefs ==
  {<<"ticket_validations", "tickets">>, <<"ticket_validations", "events">>,
   <<"ticket_validations", "producers">>}

\* child -> parent references declared without an action (NO ACTION)
NoActionRefs ==
  {<<"order_items", "event_dates">>, <<"order_items", "ticket_types">>,
   <<"tickets", "orders">>, <<"tickets", "order_items">>, <<"tickets", "events">>,
   <<"tickets", "event_dates">>, <<"tickets", "ticket_types">>} \cup TicketValidationRefs

RECURSIVE CascadeDeleted(_)
\* the tables emptied when all rows of the tables of gone are deleted
CascadeDeleted(gone) ==
  LET more == gone \cup {r[1] : r \in {x \in CascadeRefs : x[2] \in gone}} IN
  IF more = gone THEN gone ELSE CascadeDeleted(more)

\* DELETE FROM t with foreign_keys(ON), over the set of tables that hold
\* rows: the statement fails when rows of a table that is not emptied refer
\* to the deleted rows
DeleteFrom(nonempty, t) ==
  LET gone == CascadeDeleted({t}) IN
  IF \E r \in NoActionRefs :
       r[2] \in gone /\ r[2] \in nonempty /\ r[1] \notin gone /\ r[1] \in nonempty
  THEN [nonempty |-> nonempty, err |-> TRUE]
  ELSE [nonempty |-> nonempty \ gone, err |-> FALSE]

RECURSIVE clearFrom(_, _)
\* the loop of clear from table k on: it returns at the first failed DELETE
clearFrom(nonempty, k) ==
  IF k > Len(SeedTables) THEN [nonempty |-> nonempty, err |-> ""]
  ELSE LET d == DeleteFrom(nonempty, SeedTables[k]) IN
       IF d.err THEN [nonempty |-> nonempty, err |-> "delete " \o SeedTables[k]]
       ELSE clearFrom(d.nonempty, k + 1)

clear(nonempty) == clearFrom(nonempty, 1)

\* the rows insert writes
SeedUsers == {"u1", "u2", "seed-producer-user"}
SeedProducers == {"seed-producer-1"}
SeedEvents == {"e1"}
SeedEventDates == {"d1"}
SeedLots == [l \in LotIds |-> [total_quantity |-> LotTotal, available_quantity |-> LotTotal]]
SeedTicketTypes ==
  [t \in TicketTypeIds |-> [lot_id |-> "l1", max_quantity |-> LotTotal, sold_quantity |-> 0]]

\* the tables kept outside the shared variables, the runs of the seed
\* command so far, the error of the last run and the last operation
NoSeedCall == [users |-> SeedUsers, producers |-> SeedProducers, events |-> SeedEvents,
               event_dates |-> SeedEventDates, runs |-> 0, err |-> "", last |-> ""]

\* the tables that hold rows
HasRows ==
  {t \in {"tickets", "order_items", "orders", "ticket_types", "lots", "event_dates",
          "events", "producers", "users", "ticket_validations"} :
     IF t = "tickets" THEN tickets # {}
     ELSE IF t = "order_items" THEN DOMAIN order_items # {}
     ELSE IF t = "orders" THEN DOMAIN orders # {}
     ELSE IF t = "ticket_types" THEN DOMAIN ticket_types # {}
     ELSE IF t = "lots" THEN DOMAIN lots # {}
     ELSE IF t = "event_dates" THEN call.event_dates # {}
     ELSE IF t = "events" THEN call.events # {}
     ELSE IF t = "producers" THEN call.producers # {}
     ELSE IF t = "users" THEN call.users # {}
     ELSE ticket_validations # {}}

\* the item of an order of the seeded application and its ticket
SeedItemOf(o) == IF o = "o1" THEN "i1" ELSE "i3"
SeedTicketOf(o) == TicketId(IF o = "o1" THEN 1 ELSE 2, 1, 0)

\* seeds.Run: clear, then insert unless clear failed
Seed_Run ==
  LET c == clear(HasRows)
      ok == c.err = "" IN
  /\ call.runs < MaxSeedRuns
  /\ tickets' = IF "tickets" \in c.nonempty THEN tickets ELSE {}
  /\ order_items' = IF "order_items" \in c.nonempty THEN order_items ELSE << >>
  /\ orders' = IF "orders" \in c.nonempty THEN orders ELSE << >>
  /\ ticket_types' = IF ok THEN SeedTicketTypes
                     ELSE IF "ticket_types" \in c.nonempty THEN ticket_types ELSE << >>
  /\ lots' = IF ok THEN SeedLots
             ELSE IF "lots" \in c.nonempty THEN lots ELSE << >>
  /\ call' = [users |-> IF ok THEN SeedUsers
                        ELSE IF "users" \in c.nonempty THEN call.users ELSE {},
              producers |-> IF ok THEN SeedProducers
                            ELSE IF "producers" \in c.nonempty THEN call.producers ELSE {},
              events |-> IF ok THEN SeedEvents
                         ELSE IF "events" \in c.nonempty THEN call.events ELSE {},
              event_dates |-> IF ok THEN SeedEventDates
                              ELSE IF "event_dates" \in c.nonempty THEN call.event_dates ELSE {},
              runs |-> call.runs + 1,
              err |-> IF ok THEN "" ELSE "clear: " \o c.err,
              last |-> "Run"]
  /\ UNCHANGED <<stripe_webhook_events, cfg, webhook_events, ticket_validations, run, scan,
                 now, hist>>

\* CreateOrder and CreateOrderItem: a PENDING order of one unit of tier tt1
Seed_CreateOrder(o) ==
  /\ o \notin DOMAIN orders
  /\ "u1" \in call.users /\ "d1" \in call.event_dates /\ "tt1" \in DOMAIN ticket_types
  /\ orders' = orders @@ (o :> [user_id |-> "u1", status |-> "PENDING",
                                pagarme_order_id |-> "", pagarme_charge_id |-> "",
                                stripe_payment_intent_id |-> ""])
  /\ order_items' = order_items @@
       (SeedItemOf(o) :> [order_id |-> o, event_date_id |-> "d1", ticket_type_id |-> "tt1",
                          quantity |-> 1])
  /\ call' = [call EXCEPT !.last = "CreateOrder"]
  /\ UNCHANGED <<stripe_webhook_events, cfg, lots, ticket_types, tickets, webhook_events,
                 ticket_validations, run, scan, now, hist>>

\* the settlement of a PENDING order: the ticket, the two counters, the
\* confirmation
Seed_processOrderPayment(o) ==
  LET item == SeedItemOf(o)
      tt == order_items[item].ticket_type_id
      qrPayload == GenerateSignedPayloadV2(Str(SeedTicketOf(o)), Str("ch1"), Str("e1"),
                                           JWTSecret) IN
  /\ o \in DOMAIN orders /\ orders[o].status = "PENDING"
  /\ tickets' = CreateTicketWithID(tickets, SeedTicketOf(o), qrPayload, o, item,
                                   orders[o].user_id, "e1", order_items[item].event_date_id, tt)
  /\ ticket_types' = IncrementTicketTypeSold(ticket_types, tt, 1)
  /\ lots' = DecrementLotAvailable(lots, LotIDByTicketTypeID(ticket_types, tt), 1)
  /\ orders' = ConfirmOrder(orders, o)
  /\ call' = [call EXCEPT !.last = "processOrderPayment"]
  /\ UNCHANGED <<stripe_webhook_events, cfg, order_items, webhook_events, ticket_validations,
                 run, scan, now, hist>>

\* MarkTicketUsedIfNotUsed on an issued ticket
Seed_MarkTicketUsedIfNotUsed(o) ==
  /\ \E t \in tickets : t.id = SeedTicketOf(o) /\ t.used = 0
  /\ tickets' = MarkTicketUsedIfNotUsed(tickets, SeedTicketOf(o), now).tickets
  /\ call' = [call EXCEPT !.last = "MarkTicketUsedIfNotUsed"]
  /\ UNCHANGED <<stripe_webhook_events, cfg, orders, order_items, lots, ticket_types,
                 webhook_events, ticket_validations, run, scan, now, hist>>

\* InsertTicketValidation for a ticket that was marked used
Seed_InsertTicketValidation(o) ==
  /\ \E t \in tickets : t.id = SeedTicketOf(o) /\ t.used = 1
  /\ \A v \in ticket_validations : v.ticket_id # SeedTicketOf(o)
  /\ ticket_validations' =
       InsertTicketValidation(ticket_validations, "v" \o SeedTicketOf(o), SeedTicketOf(o),
                              "e1", "seed-producer-1", now)
  /\ call' = [call EXCEPT !.last = "InsertTicketValidation"]
  /\ UNCHANGED <<stripe_webhook_events, cfg, orders, order_items, lots, ticket_types, tickets,
                 webhook_events, run, scan, now, hist>>

\* the database right after the seed command ran on an empty database
InitSeed ==
  /\ orders = << >>
  /\ order_items = << >>
  /\ lots = SeedLots
  /\ ticket_types = SeedTicketTypes
  /\ tickets = {}
  /\ ticket_validations = {}
  /\ webhook_events = {}
  /\ stripe_webhook_events = {}
  /\ run = [p \in Runs |-> IdleRun]
  /\ scan = [s \in Scans |-> IdleScan]
  /\ hist = NoHist
  /\ cfg = Configured
  /\ now = 1
  /\ call = NoSeedCall

NextSeed ==
  \/ Seed_Run
  \/ \E o \in OrderIds : Seed_CreateOrder(o)
  \/ \E o \in OrderIds : Seed_processOrderPayment(o)
  \/ \E o \in OrderIds : Seed_MarkTicketUsedIfNotUsed(o)
  \/ \E o \in OrderIds : Seed_InsertTicketValidation(o)

SpecSeed == InitSeed /\ [][NextSeed]_vars

\* the seeded tables hold exactly the seed rows and no order, item or ticket
SeedState ==
  /\ call.users = SeedUsers /\ call.producers = SeedProducers
  /\ call.events = SeedEvents /\ call.event_dates = SeedEventDates
  /\ lots = SeedLots /\ ticket_types = SeedTicketTypes
  /\ DOMAIN orders = {} /\ DOMAIN order_items = {} /\ tickets = {}

\* C38 as stated: from every state the application reaches (orders paid,
\* tickets issued, tickets validated, foreign keys enforced) a run of
\* seeds.Run succeeds and leaves the seeded tables in the seed state.
C38_RunIsRepeatable ==
  call.last = "Run" => (call.err = "" /\ SeedState)

====
